---------------------------- MODULE Spec2Model ----------------------------
(***************************************************************************)
(* A model of the repository health-snapshot engine:                       *)
(*   analysis/dependency_analysis.py  module graph, cycles, instability    *)
(*   analysis/git_analysis.py         history miner, temporal coupling     *)
(*   analysis/snapshot.py             priority aggregator, orchestration   *)
(*                                                                         *)
(* Strings of the program (paths, import specifiers) are sequences of      *)
(* one-character strings, so that substring tests, splitting on "/" and    *)
(* lexicographic comparison are computed as Python computes them.          *)
(***************************************************************************)
EXTENDS Integers, Sequences, FiniteSets, TLC

(***************************************************************************)
(* Bounds of the model.                                                    *)
(***************************************************************************)
\* import statements written over all source files of the modelled repository
MaxImportStmts == 4

\* lines of "git log --numstat" output the history miner reads
MaxLogLines == 5

\* commits of "git log --name-only" output the coupling detector reads
MaxCouplingCommits == 6

\* the change counts and complexities the score is tried on: 0..MaxScoreInput
MaxScoreInput == 4

\* generated files of the repository with history, and the commits that touched each
MaxGenerated == 30
GenChanges == 6

\* generated modules of the repository, the imports of each, and the generated
\* files every commit of the coupling window names
MaxModules == 32
GenFanOut == 11
GenCoupled == 11

(***************************************************************************)
(* Python str operations.                                                  *)
(***************************************************************************)
\* the characters used by the model, in code-point order
Alphabet ==
    << "-", ".", "/", "0", "1", "2", "3", "4", "5", "6", "7", "8", "9",
       "V", "\\", "_", "a", "b", "c", "d", "e", "f", "g", "h", "i", "j", "k",
       "l", "m", "n", "o", "p", "q", "r", "s", "t", "u", "v", "w", "x",
       "y", "z" >>

\* ord(c), as the rank within the alphabet
OrdTable ==
    [ c \in { Alphabet[i] : i \in 1..Len(Alphabet) } |->
        CHOOSE i \in 1..Len(Alphabet) : Alphabet[i] = c ]

Ord(c) == OrdTable[c]

MinInt(a, b) == IF a <= b THEN a ELSE b

\* s < t on str: the first differing character decides, a proper prefix is smaller
StrLess(s, t) ==
    \E k \in 0..MinInt(Len(s), Len(t)) :
        /\ \A i \in 1..k : s[i] = t[i]
        /\ \/ k = Len(s) /\ k < Len(t)
           \/ k < Len(s) /\ k < Len(t) /\ Ord(s[k + 1]) < Ord(t[k + 1])

\* sub in s
Contains(s, sub) ==
    \E i \in 1..(Len(s) - Len(sub) + 1) : SubSeq(s, i, i + Len(sub) - 1) = sub

StartsWith(s, pre) == Len(pre) <= Len(s) /\ SubSeq(s, 1, Len(pre)) = pre

EndsWith(s, suf) ==
    Len(suf) <= Len(s) /\ SubSeq(s, Len(s) - Len(suf) + 1, Len(s)) = suf

\* s.split(sep) for a one-character separator
RECURSIVE SplitFrom(_, _, _, _)
SplitFrom(s, sep, i, cur) ==
    IF i > Len(s) THEN << cur >>
    ELSE IF s[i] = sep THEN << cur >> \o SplitFrom(s, sep, i + 1, << >>)
    ELSE SplitFrom(s, sep, i + 1, Append(cur, s[i]))

Split(s, sep) == SplitFrom(s, sep, 1, << >>)

\* sep.join(parts)
RECURSIVE Join(_, _)
Join(parts, sep) ==
    IF parts = << >> THEN << >>
    ELSE IF Len(parts) = 1 THEN parts[1]
    ELSE parts[1] \o << sep >> \o Join(Tail(parts), sep)

\* s.lower(); "V" is the one upper-case character of the model
Lower(s) == [ i \in 1..Len(s) |-> IF s[i] = "V" THEN "v" ELSE s[i] ]

\* the elements of a sequence
Range(s) == { s[i] : i \in 1..Len(s) }

\* list.index(x): the first position of x
IndexOf(s, x) == CHOOSE i \in 1..Len(s) : s[i] = x /\ \A j \in 1..(i - 1) : s[j] # x

\* the absent value of an Optional[str]
None == << >>

(***************************************************************************)
(* pathlib: a path is the sequence of its parts.                           *)
(***************************************************************************)
Dot == << "." >>
DotDot == << ".", "." >>

\* PurePosixPath(s).parts of a relative path: empty and "." segments vanish
Parts(s) == SelectSeq(Split(s, "/"), LAMBDA seg : seg # << >> /\ seg # Dot)

\* Path.as_posix()
AsPosix(parts) == Join(parts, "/")

\* PurePath.suffix of a file name: from the last "." unless it leads or ends the name
RECURSIVE LastDot(_, _)
LastDot(name, i) ==
    IF i = 0 THEN 0 ELSE IF name[i] = "." THEN i ELSE LastDot(name, i - 1)

SuffixStart(name) ==
    LET i == LastDot(name, Len(name))
    IN  IF 1 < i /\ i < Len(name) THEN i ELSE 0

\* PurePath.with_suffix applied to the last part
WithSuffixName(name, ext) ==
    IF SuffixStart(name) = 0 THEN name \o ext
    ELSE SubSeq(name, 1, SuffixStart(name) - 1) \o ext

\* Path.resolve() of from_dir / import_path, kept relative to the repository
\* root: ".." pops a part; a ".." that climbs above the root stays in front
RECURSIVE ResolveParts(_, _)
ResolveParts(stack, rest) ==
    IF rest = << >> THEN stack
    ELSE IF rest[1] = DotDot
         THEN IF stack # << >> /\ stack[Len(stack)] # DotDot
              THEN ResolveParts(SubSeq(stack, 1, Len(stack) - 1), Tail(rest))
              ELSE ResolveParts(Append(stack, DotDot), Tail(rest))
         ELSE ResolveParts(Append(stack, rest[1]), Tail(rest))

\* candidate.relative_to(repo_root) raises ValueError for such a path
OutsideRoot(parts) == parts # << >> /\ parts[1] = DotDot

(***************************************************************************)
(* The modelled repository of the dependency analysis.                     *)
(***************************************************************************)
FileA == << "s", "r", "c", "/", "a", ".", "t", "s" >>
FileB == << "s", "r", "c", "/", "b", ".", "t", "s" >>
FileC == << "s", "r", "c", "/", "c", ".", "t", "s" >>
FileTestH == << "s", "r", "c", "/", "t", "e", "s", "t", "/", "h", ".", "t", "s" >>

\* files on disk below the repository root (repo-relative)
RepoFiles == { FileA, FileB, FileC, FileTestH }

\* the absolute path of the repository root
RepoRoot == << "/", "w", "/", "r", "e", "p", "o" >>

\* the import specifiers a source file may name
ImportA == << ".", "/", "a" >>
ImportB == << ".", "/", "b" >>
ImportC == << ".", "/", "c" >>
ImportTestH == << ".", "/", "t", "e", "s", "t", "/", "h" >>
ImportMissing == << ".", "/", "m", "i", "s", "s", "i", "n", "g" >>
ImportLodash == << "l", "o", "d", "a", "s", "h" >>

ImportSpecifiers ==
    { ImportA, ImportB, ImportC, ImportTestH, ImportMissing, ImportLodash }

\* paths matched by the .gitignore PathSpec (none in the modelled repository)
GitIgnored == { }

ExtTs == << ".", "t", "s" >>
ExtTsx == << ".", "t", "s", "x" >>
ExtJs == << ".", "j", "s" >>
ExtJsx == << ".", "j", "s", "x" >>
IndexTs == << "i", "n", "d", "e", "x", ".", "t", "s" >>
IndexTsx == << "i", "n", "d", "e", "x", ".", "t", "s", "x" >>
IndexJs == << "i", "n", "d", "e", "x", ".", "j", "s" >>


(***************************************************************************)
(* dependency_analysis.py: which files are analysed, import resolution.    *)
(***************************************************************************)
SkipDirs ==
    { << "n", "o", "d", "e", "_", "m", "o", "d", "u", "l", "e", "s" >>,
      << "d", "i", "s", "t" >>, << "o", "u", "t" >>, << ".", "v", "e", "n", "v" >>,
      << "_", "_", "p", "y", "c", "a", "c", "h", "e", "_", "_" >>,
      << ".", "g", "i", "t" >>, << ".", "v", "s", "c", "o", "d", "e", "-", "t", "e", "s", "t" >> }

AnalysisExcludes ==
    << << "/", "t", "e", "s", "t", "/" >>, << "/", "m", "o", "c", "k", "s", "/" >>,
       << ".", "t", "e", "s", "t", "." >>, << ".", "s", "p", "e", "c", "." >> >>

\* should_analyze_file(filepath, repo_root, gitignore), filepath = repo_root / rel
ShouldAnalyzeFile(rel, root, gitignore) ==
    /\ \A part \in Range(Parts(root) \o Parts(rel)) : part \notin SkipDirs
    /\ rel \notin gitignore
    /\ \A i \in 1..Len(AnalysisExcludes) : ~Contains(rel, AnalysisExcludes[i])

\* the ordered candidate forms tried for a resolved reference
Candidates(resolved) ==
    LET name == resolved[Len(resolved)]
        dir == SubSeq(resolved, 1, Len(resolved) - 1)
    IN  << resolved,
           Append(dir, WithSuffixName(name, ExtTs)),
           Append(dir, WithSuffixName(name, ExtTsx)),
           Append(dir, WithSuffixName(name, ExtJs)),
           Append(resolved, IndexTs),
           Append(resolved, IndexTsx),
           Append(resolved, IndexJs) >>

\* candidate.exists() and candidate.is_file()
IsFile(parts, files) == AsPosix(parts) \in files

\* resolve_import_path(from_file, import_path, repo_root) over the files on disk
ResolveImportPath(from_file, import_path, files) ==
    LET from_dir == SubSeq(Parts(from_file), 1, Len(Parts(from_file)) - 1)
        resolved == ResolveParts(from_dir, Parts(import_path))
        candidates == IF resolved = << >> THEN << >> ELSE Candidates(resolved)
        hits == { i \in 1..Len(candidates) : IsFile(candidates[i], files) }
    IN  IF hits = { } THEN None
        ELSE LET first == CHOOSE i \in hits : \A j \in hits : i <= j
             IN  IF OutsideRoot(candidates[first]) THEN None
                 ELSE AsPosix(candidates[first])

\* extract_imports_typescript: text is the set of specifiers the file's import
\* statements name; only relative ones are resolved, unresolved ones dropped
ExtractImports(filepath, text, files) ==
    { ResolveImportPath(filepath, import_path, files) :
        import_path \in { ip \in text : StartsWith(ip, Dot) } } \ { None }

SourceExtensions == { ExtTs, ExtTsx, ExtJs, ExtJsx }

\* the rglob over the extensions, filtered by should_analyze_file
SourceFilesOf(files, root, gitignore) ==
    { f \in files :
        /\ \E ext \in SourceExtensions : EndsWith(f, ext)
        /\ ShouldAnalyzeFile(f, root, gitignore) }

SourceFiles == SourceFilesOf(RepoFiles, RepoRoot, GitIgnored)

\* build_dependency_graph: first pass (imports), second pass (imported_by)
BuildDependencyGraph(files, texts, root, gitignore) ==
    LET source_files == SourceFilesOf(files, root, gitignore)
        first == [ f \in source_files |-> ExtractImports(f, texts[f], files) ]
    IN  [ f \in source_files |->
            [ path |-> f,
              imports |-> first[f],
              imported_by |-> { m \in source_files : f \in first[m] } ] ]

\* ModuleInfo.fan_out, fan_in
FanOut(m) == Cardinality(m.imports)
FanIn(m) == Cardinality(m.imported_by)

\* the instability without the "if total == 0" guard: the division by zero
InstabilityUnguarded(m) == << FanOut(m), FanIn(m) + FanOut(m) >>

\* ModuleInfo.instability as the fraction << numerator, denominator >>
Instability(m) ==
    LET total == FanIn(m) + FanOut(m)
    IN  IF total = 0 THEN << 0, 1 >> ELSE << FanOut(m), total >>


(***************************************************************************)
(* State.                                                                  *)
(***************************************************************************)
VARIABLES
    \* dependency analysis
    texts,       \* per source file, the specifiers its import statements name
    g_pc,        \* "edit", "dfs" (graph built, cycle search running), "done"
    modules,     \* path -> ModuleInfo, of build_dependency_graph
    roots,       \* modules the outer loop of find_circular_dependencies has yet to take
    stack,       \* the active dfs calls: [node, path, todo (imports not yet iterated)]
    visited,
    rec_stack,
    cycles,
    \* history miner
    git_log,              \* the commits "git log --numstat" has printed so far
    l_pc,                 \* "parse", "done"
    current_commit_info,
    file_stats,
    \* temporal coupling detector
    tc_pc,               \* "parse", "done"
    tc_commits,          \* how many commits "git log --name-only" has printed
    current_commit,
    commit_files,        \* the dict commit -> set of files, in insertion order
    file_change_count,
    couplings,           \* the returned list
    \* priority aggregator
    p_pc,                \* "bus_factor", "hotspots", "priority", "done"
    hs_file_stats,       \* the values of the file_stats dict, in insertion order
    complexity_data,     \* the by_language lists of the complexity analysis
    bus_factor,          \* git_data["bus_factor"]
    hotspots,            \* git_data["hotspots"]
    priority_hotspots,   \* the returned list
    \* snapshot run
    s_pc,                \* the position of main / generate_snapshot
    dot_git,             \* whether <repo_root>/.git exists
    git_installed,       \* whether the git executable is found
    repo_commits,        \* the commits of the repository inside the window, newest first
    repo_texts,          \* the import specifiers of the source files on disk
    repo_complexity,     \* what analyze_complexity computes for the files on disk
    log_outcome,         \* how the "git log --numstat" call of analyze_git_log ended
    git_info,
    an_file_stats,       \* the values of analyze_git_log's result, in insertion order
    an_coupling,         \* the result of analyze_temporal_coupling
    git_data,
    complexity_result,
    debt_data,
    dependency_data,
    priority_result,
    exception,           \* the exception propagating out of generate_snapshot
    snapshot_file,       \* the JSON written to output_path
    exit_code,           \* the value main returns
    error_report,        \* the "Error: ..." line main prints to stderr
    \* the two exclusion predicates on one path
    e_pc,                \* "path", "done"
    e_path,              \* a repo-relative path of a source file
    history_excludes,    \* _should_skip_file(e_path)
    structure_excludes,  \* not should_analyze_file(repo_root / e_path, ...)
    \* the files on disk as the scans and the import resolution see them
    f_pc,                \* "disk", "done"
    f_root,              \* the absolute path of the repository root
    f_files,             \* the repo-relative paths of the files on disk
    f_import,            \* the specifier of an import statement of src/a.ts
    f_result,            \* what the operation under study returned
    \* a session ended through the Stop hook
    h_pc,                \* "working", "main" (the hook runs), "responded", "stopped"
    h_repo,              \* what the git commands would print
    h_continuing,        \* the session continues because a Stop hook blocked
    h_input,             \* the JSON object the host writes to the hook's stdin
    h_outcomes,          \* how the git commands of the last run ended
    h_result             \* what the hook printed and its exit code

gvars == << texts, g_pc, modules, roots, stack, visited, rec_stack, cycles >>

lvars == << git_log, l_pc, current_commit_info, file_stats >>

tvars == << tc_pc, tc_commits, current_commit, commit_files, file_change_count,
           couplings >>

pvars == << p_pc, hs_file_stats, complexity_data, bus_factor, hotspots,
           priority_hotspots >>

svars == << s_pc, dot_git, git_installed, repo_commits, repo_texts, repo_complexity,
           log_outcome, git_info, an_file_stats, an_coupling, git_data,
           complexity_result, debt_data, dependency_data, priority_result, exception,
           snapshot_file, exit_code, error_report >>

evars == << e_pc, e_path, history_excludes, structure_excludes >>

fvars == << f_pc, f_root, f_files, f_import, f_result >>

hvars == << h_pc, h_repo, h_continuing, h_input, h_outcomes, h_result >>

otherThanGraph == << lvars, tvars, pvars, svars, evars, fvars, hvars >>

otherThanLog == << gvars, tvars, pvars, svars, evars, fvars, hvars >>

otherThanCoupling == << gvars, lvars, pvars, svars, evars, fvars, hvars >>

otherThanPriority == << gvars, lvars, tvars, svars, evars, fvars, hvars >>

otherThanSnapshot == << gvars, lvars, tvars, pvars, evars, fvars, hvars >>

otherThanExclusion == << gvars, lvars, tvars, pvars, svars, fvars, hvars >>

otherThanFiles == << gvars, lvars, tvars, pvars, svars, evars, hvars >>

otherThanHook == << gvars, lvars, tvars, pvars, svars, evars, fvars >>

vars == << gvars, lvars, tvars, pvars, svars, evars, fvars, hvars >>

\* the state of each analysis before it runs
GraphIdle ==
    /\ texts = [ f \in SourceFiles |-> { } ]
    /\ g_pc = "edit"
    /\ modules = << >>
    /\ roots = { }
    /\ stack = << >>
    /\ visited = { }
    /\ rec_stack = { }
    /\ cycles = << >>

LogIdle ==
    /\ git_log = << >>
    /\ l_pc = "parse"
    /\ current_commit_info = None
    /\ file_stats = << >>

CouplingIdle ==
    /\ tc_pc = "parse"
    /\ tc_commits = 0
    /\ current_commit = None
    /\ commit_files = << >>
    /\ file_change_count = << >>
    /\ couplings = << >>

PriorityIdle ==
    /\ p_pc = "bus_factor"
    /\ hs_file_stats = << >>
    /\ complexity_data = << >>
    /\ bus_factor = << >>
    /\ hotspots = << >>
    /\ priority_hotspots = << >>

ExclusionIdle ==
    /\ e_pc = "path"
    /\ e_path = << >>
    /\ history_excludes = FALSE
    /\ structure_excludes = FALSE

\* a value not yet computed
NotRun == "not run"

\* the Stop hook has not run
NoResult == [ ran |-> FALSE ]

\* output_path does not exist
NoFile == [ exists |-> FALSE ]

FilesIdle ==
    /\ f_pc = "disk"
    /\ f_root = RepoRoot
    /\ f_files = { }
    /\ f_import = None
    /\ f_result = NotRun

HookIdle ==
    /\ h_pc = "working"
    /\ h_repo = NotRun
    /\ h_continuing = FALSE
    /\ h_input = << >>
    /\ h_outcomes = << >>
    /\ h_result = NoResult

SnapshotIdle ==
    /\ s_pc = "main"
    /\ dot_git = TRUE
    /\ git_installed = TRUE
    /\ repo_commits = << >>
    /\ repo_texts = [ f \in SourceFiles |-> { } ]
    /\ repo_complexity = << >>
    /\ log_outcome = NotRun
    /\ git_info = NotRun
    /\ an_file_stats = NotRun
    /\ an_coupling = NotRun
    /\ git_data = NotRun
    /\ complexity_result = NotRun
    /\ debt_data = NotRun
    /\ dependency_data = NotRun
    /\ priority_result = NotRun
    /\ exception = NotRun
    /\ snapshot_file = NoFile
    /\ exit_code = NotRun
    /\ error_report = NotRun

(***************************************************************************)
(* find_circular_dependencies.                                             *)
(***************************************************************************)
\* min(cycle[:-1]) on str
MinStr(S) == CHOOSE x \in S : \A y \in S : x = y \/ StrLess(x, y)

\* sorted(S): ascending on str
RECURSIVE SortedList(_)
SortedList(S) ==
    IF S = { } THEN << >>
    ELSE LET m == MinStr(S) IN << m >> \o SortedList(S \ { m })

\* NormalizeCycle with the closing member forgotten after the rotation
NormalizeCycleNoClose(cycle) ==
    LET open == SubSeq(cycle, 1, Len(cycle) - 1)
        min_idx == IndexOf(cycle, MinStr(Range(open)))
    IN  SubSeq(cycle, min_idx, Len(cycle) - 1) \o SubSeq(cycle, 1, min_idx - 1)

\* NormalizeCycle with the rotation forgotten
NormalizeCycleNoRotation(cycle) == cycle

\* the normalisation of a closed chain: rotate it to start at its smallest member
NormalizeCycle(cycle) ==
    LET open == SubSeq(cycle, 1, Len(cycle) - 1)
        min_idx == IndexOf(cycle, MinStr(Range(open)))
    IN  SubSeq(cycle, min_idx, Len(cycle) - 1)
            \o SubSeq(cycle, 1, min_idx - 1)
            \o << cycle[min_idx] >>

\* ExtractCycle that takes the whole path, not the part from the revisited node on
ExtractCycleWholePath(node, path) == NormalizeCycle(path \o << node >>)

\* the cycle dfs(node, path) extracts when node is on the recursion stack
ExtractCycle(node, path) ==
    NormalizeCycle(SubSeq(path, IndexOf(path, node), Len(path)) \o << node >>)

\* "if normalized not in cycles: cycles.append(normalized)"
RecordCycle(found, normalized) ==
    IF normalized \in Range(found) THEN found ELSE Append(found, normalized)

\* the call dfs(node, path) up to its loop over the imports; callers is the stack
\* of the calls it is made from
DfsCall(node, path, callers) ==
    IF node \in rec_stack
    THEN /\ cycles' = RecordCycle(cycles, ExtractCycle(node, path))
         /\ stack' = callers
         /\ UNCHANGED << visited, rec_stack >>
    ELSE IF node \in visited
    THEN /\ stack' = callers
         /\ UNCHANGED << cycles, visited, rec_stack >>
    ELSE /\ visited' = visited \cup { node }
         /\ rec_stack' = rec_stack \cup { node }
         /\ stack' = Append(callers, [ node |-> node, path |-> path,
                                       todo |-> modules[node].imports ])
         /\ UNCHANGED cycles

(***************************************************************************)
(* The dependency analysis as a state machine.                             *)
(***************************************************************************)
TotalImportStmts(t) ==
    Cardinality({ pr \in SourceFiles \X ImportSpecifiers : pr[2] \in t[pr[1]] })

\* the repository's author writes one more import statement into a source file
EditImport(f, ip) ==
    /\ g_pc = "edit"
    /\ ip \notin texts[f]
    /\ TotalImportStmts(texts) < MaxImportStmts
    /\ texts' = [ texts EXCEPT ![f] = @ \cup { ip } ]
    /\ UNCHANGED << g_pc, modules, roots, stack, visited, rec_stack, cycles >>
    /\ UNCHANGED otherThanGraph

\* modules = build_dependency_graph(repo_root); find_circular_dependencies starts
BuildGraph ==
    /\ g_pc = "edit"
    /\ modules' = BuildDependencyGraph(RepoFiles, texts, RepoRoot, GitIgnored)
    /\ roots' = DOMAIN modules'
    /\ g_pc' = "dfs"
    /\ UNCHANGED << texts, stack, visited, rec_stack, cycles >>
    /\ UNCHANGED otherThanGraph

\* "for module_path in modules: if module_path not in visited: dfs(module_path, [])"
DfsRoot(module_path) ==
    /\ g_pc = "dfs"
    /\ stack = << >>
    /\ module_path \in roots
    /\ roots' = roots \ { module_path }
    /\ IF module_path \notin visited
       THEN DfsCall(module_path, << >>, stack)
       ELSE UNCHANGED << stack, visited, rec_stack, cycles >>
    /\ UNCHANGED << texts, g_pc, modules >>
    /\ UNCHANGED otherThanGraph

\* one iteration of "for imported in module.imports: if imported in modules: dfs(...)"
DfsVisit(imported) ==
    /\ g_pc = "dfs"
    /\ stack # << >>
    /\ LET top == stack[Len(stack)]
           callers == [ stack EXCEPT ![Len(stack)].todo = @ \ { imported } ]
       IN  /\ imported \in top.todo
           /\ IF imported \in DOMAIN modules
              THEN DfsCall(imported, Append(top.path, top.node), callers)
              ELSE /\ stack' = callers
                   /\ UNCHANGED << visited, rec_stack, cycles >>
    /\ UNCHANGED << texts, g_pc, modules, roots >>
    /\ UNCHANGED otherThanGraph

\* the loop of a dfs call is exhausted: "rec_stack.remove(node)" and return
DfsReturn ==
    /\ g_pc = "dfs"
    /\ stack # << >>
    /\ stack[Len(stack)].todo = { }
    /\ rec_stack' = rec_stack \ { stack[Len(stack)].node }
    /\ stack' = SubSeq(stack, 1, Len(stack) - 1)
    /\ UNCHANGED << texts, g_pc, modules, roots, visited, cycles >>
    /\ UNCHANGED otherThanGraph

\* the outer loop is exhausted: "return cycles"
DfsDone ==
    /\ g_pc = "dfs"
    /\ stack = << >>
    /\ roots = { }
    /\ g_pc' = "done"
    /\ UNCHANGED << texts, modules, roots, stack, visited, rec_stack, cycles >>
    /\ UNCHANGED otherThanGraph

InitGraph == GraphIdle /\ LogIdle /\ ExclusionIdle /\ FilesIdle /\ HookIdle /\ CouplingIdle /\ PriorityIdle /\ SnapshotIdle

NextGraph ==
    \/ \E f \in SourceFiles, ip \in ImportSpecifiers : EditImport(f, ip)
    \/ BuildGraph
    \/ \E m \in DOMAIN modules : DfsRoot(m)
    \/ \E imported \in RepoFiles : DfsVisit(imported)
    \/ DfsReturn
    \/ DfsDone

SpecGraph == InitGraph /\ [][NextGraph]_vars


(***************************************************************************)
(* Claims about the dependency graph (checked under SpecGraph).            *)
(***************************************************************************)
\* C2: after build_dependency_graph every path in any module's imports set is
\* itself a node of the graph (a key of the modules map).
C2_ImportsAreNodes ==
    g_pc # "edit" =>
        \A m \in DOMAIN modules : modules[m].imports \subseteq DOMAIN modules

\* the graph's only edges are x -> y and y -> x
OnlyTwoCycle(x, y) ==
    /\ x # y
    /\ modules[x].imports = { y }
    /\ modules[y].imports = { x }
    /\ \A m \in DOMAIN modules \ { x, y } : modules[m].imports = { }

\* a fraction << n, d >> equals one half
IsHalf(frac) == 2 * frac[1] = frac[2]

\* C3 (as stated): for a graph whose only edges are A -> B and B -> A,
\* find_circular_dependencies reports exactly one cycle, the 2-element
\* sequence [A, B], and instability(A) = instability(B) = 0.5.
C3_TwoElementCycle ==
    \A x, y \in DOMAIN modules :
        (g_pc = "done" /\ StrLess(x, y) /\ OnlyTwoCycle(x, y)) =>
            /\ cycles = << << x, y >> >>
            /\ IsHalf(Instability(modules[x]))
            /\ IsHalf(Instability(modules[y]))

\* C3 (amended): for that graph exactly one cycle is reported, the closed chain
\* [A, B, A] whose two members are A and B (the closing member is repeated),
\* and instability(A) = instability(B) = 0.5.
C3_ClosedTwoCycle ==
    \A x, y \in DOMAIN modules :
        (g_pc = "done" /\ StrLess(x, y) /\ OnlyTwoCycle(x, y)) =>
            /\ cycles = << << x, y, x >> >>
            /\ IsHalf(Instability(modules[x]))
            /\ IsHalf(Instability(modules[y]))

\* the cycle search has finished on the graph a.ts <-> b.ts
C3_Witness ==
    /\ g_pc = "done"
    /\ FileA \in DOMAIN modules /\ FileB \in DOMAIN modules
    /\ OnlyTwoCycle(FileA, FileB)

\* the members of a recorded cycle, without the repeated closing member
Members(cycle) == SubSeq(cycle, 1, Len(cycle) - 1)

\* d lists the members of c in the same cyclic order, from some other start
IsRotationOf(c, d) ==
    LET oc == Members(c)
        od == Members(d)
        n == Len(oc)
    IN  /\ Len(od) = n
        /\ \E k \in 0..(n - 1) : \A i \in 1..n : od[i] = oc[((i - 1 + k) % n) + 1]

\* C4: every recorded cycle starts (and closes) at its lexicographically
\* smallest member and follows the import edges in order, whichever member the
\* DFS closed it at; no two recorded cycles are rotations of one another and
\* none is recorded twice.
C4_RotationInvariant ==
    /\ \A i \in 1..Len(cycles) :
          LET c == cycles[i]
          IN  /\ Len(c) >= 2
              /\ c[Len(c)] = c[1]
              /\ \A j \in 1..(Len(c) - 1) : c[j] = c[1] \/ StrLess(c[1], c[j])
              /\ \A j \in 1..(Len(c) - 1) : c[j + 1] \in modules[c[j]].imports
    /\ \A i, j \in 1..Len(cycles) : i # j => ~IsRotationOf(cycles[i], cycles[j])

\* the search entered at b.ts, so the cycle a.ts <-> b.ts was closed at b.ts,
\* and it is recorded from a.ts
C4_Witness ==
    /\ stack # << >>
    /\ stack[1].node = FileB
    /\ cycles = << << FileA, FileB, FileA >> >>


\* C11: for every module, instability = fan_out / (fan_in + fan_out) lies in
\* [0, 1] and is exactly 0 when fan_in = fan_out = 0: no division by zero.
C11_InstabilityRange ==
    g_pc # "edit" =>
        \A f \in DOMAIN modules :
            LET inst == Instability(modules[f])
            IN  /\ inst[2] > 0
                /\ 0 <= inst[1]
                /\ inst[1] <= inst[2]
                /\ (FanIn(modules[f]) = 0 /\ FanOut(modules[f]) = 0) => inst[1] = 0
                /\ (FanIn(modules[f]) + FanOut(modules[f]) > 0) =>
                      inst[1] * (FanIn(modules[f]) + FanOut(modules[f]))
                          = FanOut(modules[f]) * inst[2]

\* the graph holds an isolated module, a module that only imports (instability
\* 1) and a module that is only imported (instability 0 with fan_in > 0)
C11_Witness ==
    /\ g_pc # "edit"
    /\ \E f \in DOMAIN modules : FanIn(modules[f]) = 0 /\ FanOut(modules[f]) = 0
    /\ \E f \in DOMAIN modules :
          FanOut(modules[f]) > 0 /\ Instability(modules[f])[1] = Instability(modules[f])[2]
    /\ \E f \in DOMAIN modules :
          FanIn(modules[f]) > 0 /\ Instability(modules[f])[1] = 0

\* the import edges between nodes of the graph
NodeEdges == { e \in (DOMAIN modules) \X (DOMAIN modules) : e[2] \in modules[e[1]].imports }

\* the nodes reachable from the nodes of S along one or more import edges
RECURSIVE ReachedFrom(_, _)
ReachedFrom(S, reached) ==
    LET next == { e[2] : e \in { d \in NodeEdges : d[1] \in S \cup reached } }
    IN  IF next \subseteq reached THEN reached ELSE ReachedFrom(S, reached \cup next)

\* the graph restricted to its nodes has a directed cycle (a self-import is one)
HasDirectedCycle == \E m \in DOMAIN modules : m \in ReachedFrom({ m }, { })

\* a closed chain of import edges between nodes, no member repeated but the
\* closing one
IsClosedChain(c) ==
    /\ Len(c) >= 2
    /\ c[Len(c)] = c[1]
    /\ \A j \in 1..(Len(c) - 1) : << c[j], c[j + 1] >> \in NodeEdges
    /\ \A j, k \in 1..(Len(c) - 1) : j # k => c[j] # c[k]

\* C17: cycle detection is sound and complete for existence: every reported
\* cycle is a closed chain whose consecutive members are joined by an import
\* edge between nodes of the graph, with no member repeated except the closing
\* one; when the graph restricted to its nodes has a directed cycle (a
\* self-import included) at least one cycle is reported, and when it has none
\* no cycle is reported.
C17_SoundAndComplete ==
    g_pc # "edit" =>
        /\ \A i \in 1..Len(cycles) : IsClosedChain(cycles[i])
        /\ g_pc = "done" => ((cycles # << >>) <=> HasDirectedCycle)

\* the search has finished on a graph where b.ts imports itself and c.ts, and
\* a.ts imports b.ts: it entered at a.ts and reported the self-import
C17_Witness ==
    /\ g_pc = "done"
    /\ modules[FileB].imports = { FileB, FileC }
    /\ modules[FileA].imports = { FileB }
    /\ modules[FileC].imports = { }
    /\ cycles = << << FileB, FileB >> >>

\* dfs(node, path) and its loop over the imports, run to completion with the
\* imports taken in ascending order; st is [visited, rec_stack, cycles]
RECURSIVE DfsAscending(_, _, _, _), DfsImportsAscending(_, _, _, _)
DfsAscending(mods, node, path, st) ==
    IF node \in st.rec_stack
    THEN [ st EXCEPT !.cycles = RecordCycle(@, ExtractCycle(node, path)) ]
    ELSE IF node \in st.visited THEN st
    ELSE LET entered == [ st EXCEPT !.visited = @ \cup { node },
                                    !.rec_stack = @ \cup { node } ]
             left == DfsImportsAscending(mods, SortedList(mods[node].imports),
                                         Append(path, node), entered)
         IN  [ left EXCEPT !.rec_stack = @ \ { node } ]

DfsImportsAscending(mods, todo, path, st) ==
    IF todo = << >> THEN st
    ELSE DfsImportsAscending(mods, Tail(todo), path,
                             IF todo[1] \in DOMAIN mods
                             THEN DfsAscending(mods, todo[1], path, st)
                             ELSE st)

\* the outer loop of find_circular_dependencies over the modules still to take
RECURSIVE DfsRootsAscending(_, _, _)
DfsRootsAscending(mods, todo, st) ==
    IF todo = << >> THEN st.cycles
    ELSE DfsRootsAscending(mods, Tail(todo),
                           IF todo[1] \notin st.visited
                           THEN DfsAscending(mods, todo[1], << >>, st)
                           ELSE st)

\* find_circular_dependencies(modules) when the modules and the imports of
\* each are iterated in ascending order of path
FindCircularDependenciesAscending(mods) ==
    DfsRootsAscending(mods, SortedList(DOMAIN mods),
                      [ visited |-> { }, rec_stack |-> { }, cycles |-> << >> ])

\* C18: for a fixed module graph the set of cycles reported is the same
\* whichever module the search is entered from and in whatever order the
\* modules and the imports of each are iterated: every run reports the set
\* the run in ascending order reports.
C18_SameCyclesAnyOrder ==
    g_pc = "done" =>
        Range(cycles) = Range(FindCircularDependenciesAscending(modules))


(***************************************************************************)
(* git_analysis.py: the history miner (analyze_git_log).                   *)
(***************************************************************************)
FileOld == << "s", "r", "c", "/", "o", "l", "d", ".", "t", "s" >>
FileLogo == << "m", "e", "d", "i", "a", "/", "l", "o", "g", "o", ".", "p", "n", "g" >>

\* the paths "git log --numstat" may name
LogPaths == { FileA, FileB, FileTestH, FileOld, FileLogo }

\* get_tracked_files: the output of "git ls-files" (old.ts was deleted)
TrackedFiles == { FileA, FileB, FileTestH, FileLogo }

AuthorAnn == << "a", "n", "n" >>
AuthorBob == << "b", "o", "b" >>
Authors == { AuthorAnn, AuthorBob }

\* %aI timestamps git prints, each one token of the line
IsoDates == { "2024-03-01T09:00:00+00:00", "2024-05-01T09:00:00Z" }

\* the outcome of a conversion that raises ValueError
ValueError == -1

\* the None of an Optional[datetime]
NoDate == 0

\* datetime.fromisoformat(date_str.replace("Z", "+00:00")): the instant (as days
\* since the epoch), or ValueError

FromIsoFormat(date_str) ==
    CASE date_str = "2024-03-01T09:00:00+00:00" -> 19783
      [] date_str = "2024-05-01T09:00:00Z" -> 19844
      [] OTHER -> ValueError

Digits == << "0", "1", "2", "3", "4", "5", "6", "7", "8", "9" >>

IsDigit(c) == \E d \in 1..10 : Digits[d] = c

DigitValue(c) == (CHOOSE d \in 1..10 : Digits[d] = c) - 1

\* int(s) of a decimal numeral, or ValueError
RECURSIVE IntFrom(_, _, _)
IntFrom(s, i, acc) ==
    IF i > Len(s) THEN acc ELSE IntFrom(s, i + 1, 10 * acc + DigitValue(s[i]))

IntOf(s) ==
    IF s # << >> /\ \A i \in 1..Len(s) : IsDigit(s[i]) THEN IntFrom(s, 1, 0)
    ELSE ValueError

\* the commit hashes, in the order git prints the commits
HashOf(n) == << "c", Digits[n + 1] >>

Bar == "|"
Tab == "\t"
Minus == << "-" >>

\* "--format=%H|%aI|%aN"
HeaderLine(hash, date, author) == hash \o << Bar, date, Bar >> \o author

\* a numstat line "added<TAB>removed<TAB>filepath"
StatLine(added, removed, filepath) ==
    added \o << Tab >> \o removed \o << Tab >> \o filepath

\* line.count(ch)
CountOf(line, ch) == Cardinality({ i \in 1..Len(line) : line[i] = ch })

\* s.replace(old, new) for one-character old and new
ReplaceChar(s, old, new) == [ i \in 1..Len(s) |-> IF s[i] = old THEN new ELSE s[i] ]

SkipPatterns ==
    << << "n", "o", "d", "e", "_", "m", "o", "d", "u", "l", "e", "s", "/" >>,
       << "d", "i", "s", "t", "/" >>,
       << ".", "v", "s", "c", "o", "d", "e", "-", "t", "e", "s", "t", "/" >>,
       << "_", "_", "p", "y", "c", "a", "c", "h", "e", "_", "_", "/" >>,
       << ".", "g", "i", "t", "/" >>,
       << "p", "a", "c", "k", "a", "g", "e", "-", "l", "o", "c", "k", ".", "j", "s", "o", "n" >>,
       << ".", "v", "s", "i", "x" >>,
       << "/", "t", "e", "s", "t", "/" >>, << "/", "t", "e", "s", "t", "s", "/" >>,
       << "/", "_", "_", "t", "e", "s", "t", "s", "_", "_", "/" >>,
       << "/", "m", "o", "c", "k", "s", "/" >> >>

TestDirs ==
    { << "t", "e", "s", "t" >>, << "t", "e", "s", "t", "s" >>,
      << "_", "_", "t", "e", "s", "t", "s", "_", "_" >>, << "m", "o", "c", "k", "s" >> }

\* _should_skip_file(filepath)
ShouldSkipFile(filepath) ==
    LET normalized_path == ReplaceChar(filepath, "\\", "/")
        parts == Parts(filepath)
        filename == IF parts = << >> THEN << >> ELSE parts[Len(parts)]
        dir_parts == SubSeq(parts, 1, Len(parts) - 1)
    IN  \/ \E i \in 1..Len(SkipPatterns) : Contains(normalized_path, SkipPatterns[i])
        \/ StartsWith(filename, << "t", "e", "s", "t", "_" >>)
        \/ EndsWith(filename, << "_", "t", "e", "s", "t", ".", "p", "y" >>)
        \/ EndsWith(filename, << "_", "t", "e", "s", "t", "s", ".", "p", "y" >>)
        \/ Contains(filename, << ".", "t", "e", "s", "t", "." >>)
        \/ Contains(filename, << ".", "s", "p", "e", "c", "." >>)
        \/ \E part \in Range(dir_parts) : part \in TestDirs

\* _should_skip_file on the paths the logs of the model name, computed once
HistoryPaths == { FileA, FileB, FileC, FileTestH, FileOld, FileLogo }

SkipTable == [ filepath \in HistoryPaths |-> ShouldSkipFile(filepath) ]

\* the call _should_skip_file(filepath) of the two parse loops
SkipsFile(filepath) ==
    IF filepath \in HistoryPaths THEN SkipTable[filepath] ELSE ShouldSkipFile(filepath)

\* FileStats(path=filepath)
NewFileStats(filepath) ==
    [ path |-> filepath, change_count |-> 0, lines_added |-> 0, lines_removed |-> 0,
      authors |-> { }, last_modified |-> NoDate, first_seen |-> NoDate ]

\* UpdateFileStats that keeps the first timestamp it saw as last_modified
UpdateFileStatsFirstDateStays(stats, lines_added, lines_removed, commit_date, author) ==
    [ stats EXCEPT
        !.change_count = @ + 1,
        !.lines_added = @ + lines_added,
        !.lines_removed = @ + lines_removed,
        !.authors = @ \cup { author },
        !.last_modified = IF @ = NoDate THEN commit_date ELSE @,
        !.first_seen = IF @ = NoDate \/ commit_date < @ THEN commit_date ELSE @ ]

\* UpdateFileStats counting the added lines where it should count the commit
UpdateFileStatsCountsLines(stats, lines_added, lines_removed, commit_date, author) ==
    [ stats EXCEPT
        !.change_count = @ + lines_added,
        !.lines_added = @ + lines_added,
        !.lines_removed = @ + lines_removed,
        !.authors = @ \cup { author },
        !.last_modified = IF @ = NoDate \/ commit_date > @ THEN commit_date ELSE @,
        !.first_seen = IF @ = NoDate \/ commit_date < @ THEN commit_date ELSE @ ]

\* the fold of one counted numstat entry into its FileStats
UpdateFileStats(stats, lines_added, lines_removed, commit_date, author) ==
    [ stats EXCEPT
        !.change_count = @ + 1,
        !.lines_added = @ + lines_added,
        !.lines_removed = @ + lines_removed,
        !.authors = @ \cup { author },
        !.last_modified = IF @ = NoDate \/ commit_date > @ THEN commit_date ELSE @,
        !.first_seen = IF @ = NoDate \/ commit_date < @ THEN commit_date ELSE @ ]

\* "if '|' in line and line.count('|') == 2" with the three parts of the split
IsHeaderLine(line) == CountOf(line, Bar) = 2 /\ Len(Split(line, Bar)) = 3

\* current_commit_info where "except ValueError" leaves the previous commit current
CommitInfoAfterKeepsCommit(line, info) ==
    IF IsHeaderLine(line)
    THEN LET parts == Split(line, Bar)
             commit_date == IF Len(parts[2]) = 1 THEN FromIsoFormat(parts[2][1])
                            ELSE ValueError
         IN  IF commit_date = ValueError THEN info
             ELSE << parts[1], commit_date, parts[3] >>
    ELSE info

\* current_commit_info after a line of the log
CommitInfoAfter(line, info) ==
    IF IsHeaderLine(line)
    THEN LET parts == Split(line, Bar)
             commit_date == IF Len(parts[2]) = 1 THEN FromIsoFormat(parts[2][1])
                            ELSE ValueError
         IN  IF commit_date = ValueError THEN None
             ELSE << parts[1], commit_date, parts[3] >>
    ELSE info

\* FileStatsAfter without the test "filepath not in tracked_files"
FileStatsAfterAnyFile(line, info, tracked_files, stats) ==
    IF IsHeaderLine(line) \/ info = None \/ CountOf(line, Tab) = 0 THEN stats
    ELSE LET parts == Split(line, Tab)
         IN  IF Len(parts) < 3 THEN stats
             ELSE LET added == parts[1]
                      removed == parts[2]
                      filepath == parts[3]
                  IN  IF added = Minus \/ removed = Minus THEN stats
                      ELSE IF SkipsFile(filepath) THEN stats
                      ELSE IF IntOf(added) = ValueError \/ IntOf(removed) = ValueError
                           THEN stats
                      ELSE LET old == IF filepath \in DOMAIN stats THEN stats[filepath]
                                      ELSE NewFileStats(filepath)
                               new == UpdateFileStats(old, IntOf(added), IntOf(removed),
                                                      info[2], info[3])
                           IN  [ f \in DOMAIN stats \cup { filepath } |->
                                   IF f = filepath THEN new ELSE stats[f] ]

\* file_stats after a line of the log
FileStatsAfter(line, info, tracked_files, stats) ==
    IF IsHeaderLine(line) \/ info = None \/ CountOf(line, Tab) = 0 THEN stats
    ELSE LET parts == Split(line, Tab)
         IN  IF Len(parts) < 3 THEN stats
             ELSE LET added == parts[1]
                      removed == parts[2]
                      filepath == parts[3]
                  IN  IF added = Minus \/ removed = Minus THEN stats
                      ELSE IF filepath \notin tracked_files THEN stats
                      ELSE IF SkipsFile(filepath) THEN stats
                      ELSE IF IntOf(added) = ValueError \/ IntOf(removed) = ValueError
                           THEN stats
                      ELSE LET old == IF filepath \in DOMAIN stats THEN stats[filepath]
                                      ELSE NewFileStats(filepath)
                               new == UpdateFileStats(old, IntOf(added), IntOf(removed),
                                                      info[2], info[3])
                           IN  [ f \in DOMAIN stats \cup { filepath } |->
                                   IF f = filepath THEN new ELSE stats[f] ]


(***************************************************************************)
(* The history miner as a state machine: git prints the log line by line   *)
(* (a header per commit, then its numstat entries in path order) and the   *)
(* loop of analyze_git_log folds each line.                                *)
(***************************************************************************)
\* the added/removed fields git prints for a path
NumstatOf(filepath) ==
    IF filepath = FileLogo THEN << Minus, Minus >>
    ELSE IF filepath = FileA THEN << << "1", "2" >>, << "3" >> >>
    ELSE << << "1" >>, << "0" >> >>

LogLines(log) ==
    Len(log) + Cardinality({ pr \in (1..Len(log)) \X LogPaths :
                               \E k \in 1..Len(log[pr[1]].entries) :
                                   log[pr[1]].entries[k].path = pr[2] })

\* one loop iteration of analyze_git_log on a line
ParseLogLine(line) ==
    /\ current_commit_info' = CommitInfoAfter(line, current_commit_info)
    /\ file_stats' = FileStatsAfter(line, current_commit_info, TrackedFiles, file_stats)

\* git prints the header of the next commit
LogHeader(date, author) ==
    /\ l_pc = "parse"
    /\ LogLines(git_log) < MaxLogLines
    /\ LET hash == HashOf(Len(git_log) + 1)
       IN  /\ git_log' = Append(git_log, [ hash |-> hash, date |-> date,
                                           author |-> author, entries |-> << >> ])
           /\ ParseLogLine(HeaderLine(hash, date, author))
    /\ UNCHANGED l_pc
    /\ UNCHANGED otherThanLog

\* git prints the next numstat entry of the current commit
LogStat(filepath) ==
    /\ l_pc = "parse"
    /\ LogLines(git_log) < MaxLogLines
    /\ git_log # << >>
    /\ LET n == Len(git_log)
           entries == git_log[n].entries
           stat == NumstatOf(filepath)
       IN  /\ IF entries = << >> THEN TRUE
              ELSE StrLess(entries[Len(entries)].path, filepath)
           /\ git_log' = [ git_log EXCEPT ![n].entries =
                             Append(@, [ added |-> stat[1], removed |-> stat[2],
                                         path |-> filepath ]) ]
           /\ ParseLogLine(StatLine(stat[1], stat[2], filepath))
    /\ UNCHANGED l_pc
    /\ UNCHANGED otherThanLog

\* the log is exhausted: "return dict(file_stats)"
LogEnd ==
    /\ l_pc = "parse"
    /\ l_pc' = "done"
    /\ UNCHANGED << git_log, current_commit_info, file_stats >>
    /\ UNCHANGED otherThanLog

InitLog == GraphIdle /\ LogIdle /\ ExclusionIdle /\ FilesIdle /\ HookIdle /\ CouplingIdle /\ PriorityIdle /\ SnapshotIdle

NextLog ==
    \/ \E date \in IsoDates, author \in Authors : LogHeader(date, author)
    \/ \E filepath \in LogPaths : LogStat(filepath)
    \/ LogEnd

SpecLog == InitLog /\ [][NextLog]_vars


(***************************************************************************)
(* Claims about the history miner (checked under SpecLog).                 *)
(***************************************************************************)
\* the commits of the log that touch filepath: they print a numstat entry for it
CommitsTouching(filepath) ==
    { i \in 1..Len(git_log) :
        \E k \in 1..Len(git_log[i].entries) : git_log[i].entries[k].path = filepath }

\* those whose entry for filepath is not binary-marked
CommitsTouchingAsText(filepath) ==
    { i \in 1..Len(git_log) :
        \E k \in 1..Len(git_log[i].entries) :
            /\ git_log[i].entries[k].path = filepath
            /\ git_log[i].entries[k].added # Minus
            /\ git_log[i].entries[k].removed # Minus }

\* the exclusion filters: currently tracked, and not excluded by policy
PassesFilters(filepath) == filepath \in TrackedFiles /\ ~ShouldSkipFile(filepath)

\* file_stats reports exactly count changes for filepath (no entry when count = 0)
ReportsCount(filepath, count) ==
    IF count = 0 THEN filepath \notin DOMAIN file_stats
    ELSE /\ filepath \in DOMAIN file_stats
         /\ file_stats[filepath].change_count = count

\* C5 (as stated): the change_count analyze_git_log reports for a file equals
\* the number of distinct commits of the (non-merge, in-window) log that touch
\* it, counted after the exclusion filters (tracked, not excluded); a file with
\* no such commit has no entry.
C5_CountsTouchingCommits ==
    l_pc = "done" =>
        \A f \in LogPaths :
            ReportsCount(f, IF PassesFilters(f)
                            THEN Cardinality(CommitsTouching(f)) ELSE 0)

\* C5 (amended): the change_count equals the number of distinct commits whose
\* numstat entry for the file is not binary-marked, counted after the
\* exclusion filters (tracked, not excluded); a file with no such commit has
\* no entry.
C5_CountsTextCommits ==
    l_pc = "done" =>
        \A f \in LogPaths :
            ReportsCount(f, IF PassesFilters(f)
                            THEN Cardinality(CommitsTouchingAsText(f)) ELSE 0)

\* two commits touched a.ts, the log also named a file the filters drop, and
\* b.ts was never touched
C5_Witness ==
    /\ l_pc = "done"
    /\ FileA \in DOMAIN file_stats
    /\ file_stats[FileA].change_count = 2
    /\ FileB \notin DOMAIN file_stats
    /\ \E f \in LogPaths : ~PassesFilters(f) /\ CommitsTouching(f) # { }

\* the step reads one more numstat entry of the current commit
ReadsEntry ==
    /\ git_log # << >>
    /\ Len(git_log') = Len(git_log)
    /\ Len(git_log'[Len(git_log)].entries) = Len(git_log[Len(git_log)].entries) + 1

\* the entry the step reads
EntryRead == LET entries == git_log'[Len(git_log)].entries IN entries[Len(entries)]

\* binary-marked, not currently tracked, or excluded by _should_skip_file
Filtered(entry) ==
    \/ entry.added = Minus
    \/ entry.removed = Minus
    \/ entry.path \notin TrackedFiles
    \/ ShouldSkipFile(entry.path)

\* C20: analyze_git_log aggregates only from stat entries that are
\* non-binary, tracked and not excluded: reading a binary-marked, untracked or
\* excluded entry leaves every aggregate unchanged and creates no entry.
C20_FilteredEntriesIgnored ==
    [][(ReadsEntry /\ Filtered(EntryRead)) => file_stats' = file_stats]_vars

\* one commit printed a binary, an untracked, an excluded and a counted entry;
\* only the counted one has an entry
C20_Witness ==
    /\ l_pc = "done"
    /\ Len(git_log) = 1
    /\ { git_log[1].entries[k].path : k \in 1..Len(git_log[1].entries) }
           = { FileLogo, FileA, FileOld, FileTestH }
    /\ DOMAIN file_stats = { FileA }
    /\ file_stats[FileA].change_count = 1

\* the commits counted for filepath: those with a text entry for it, when the
\* file is tracked and not excluded
CommitsCounted(filepath) ==
    IF filepath \in TrackedFiles /\ ~SkipsFile(filepath)
    THEN CommitsTouchingAsText(filepath) ELSE { }

\* the numstat entry of commit i for filepath
EntryOf(i, filepath) ==
    LET entries == git_log[i].entries
    IN  entries[CHOOSE k \in 1..Len(entries) : entries[k].path = filepath]

\* the added (removed) fields of filepath in the commits of counted, summed
RECURSIVE AddedIn(_, _), RemovedIn(_, _)
AddedIn(counted, filepath) ==
    IF counted = { } THEN 0
    ELSE LET i == CHOOSE j \in counted : TRUE
         IN  IntOf(EntryOf(i, filepath).added) + AddedIn(counted \ { i }, filepath)

RemovedIn(counted, filepath) ==
    IF counted = { } THEN 0
    ELSE LET i == CHOOSE j \in counted : TRUE
         IN  IntOf(EntryOf(i, filepath).removed) + RemovedIn(counted \ { i }, filepath)

\* C21: after folding any commit stream, each file's author set is exactly the
\* set of authors of the commits counted for that file, lines_added and
\* lines_removed are the sums of those commits' stat fields, and first_seen and
\* last_modified are the earliest and latest timestamps of those commits; so
\* every reported file has change_count >= 1, a non-empty author set and
\* first_seen <= last_modified.
C21_AggregatesOfCountedCommits ==
    \A f \in DOMAIN file_stats :
        LET stats == file_stats[f]
            counted == CommitsCounted(f)
            dates == { FromIsoFormat(git_log[i].date) : i \in counted }
        IN  /\ stats.authors = { git_log[i].author : i \in counted }
            /\ stats.lines_added = AddedIn(counted, f)
            /\ stats.lines_removed = RemovedIn(counted, f)
            /\ stats.first_seen \in dates
            /\ stats.last_modified \in dates
            /\ \A d \in dates : stats.first_seen <= d /\ d <= stats.last_modified
            /\ stats.change_count >= 1
            /\ stats.authors # { }
            /\ stats.first_seen <= stats.last_modified

\* a.ts was changed by two authors, in a newer commit printed first and an
\* older one printed after it
C21_Witness ==
    /\ FileA \in DOMAIN file_stats
    /\ file_stats[FileA].change_count = 2
    /\ file_stats[FileA].authors = { AuthorAnn, AuthorBob }
    /\ file_stats[FileA].lines_added = 24
    /\ file_stats[FileA].first_seen < file_stats[FileA].last_modified
    /\ FromIsoFormat(git_log[1].date) > FromIsoFormat(git_log[2].date)


(***************************************************************************)
(* git_analysis.py: the temporal coupling detector.                        *)
(***************************************************************************)
\* the paths "git log --name-only" may name
CouplingPaths == { FileA, FileB, FileC, FileOld, FileTestH }

\* c.ts is a recent file: only the newest commits, which git prints first, name it
CommitsNamingC == 1..3

\* get_tracked_files in analyze_temporal_coupling
CouplingTracked == { FileA, FileB, FileC, FileTestH }

HashLength == 40

HexDigits ==
    { "0", "1", "2", "3", "4", "5", "6", "7", "8", "9", "a", "b", "c", "d", "e", "f" }

\* the "%H" line of the n-th commit git prints
Sha(n) == [ i \in 1..HashLength |-> IF i = HashLength THEN Digits[n + 1] ELSE "0" ]

\* "len(line) == 40 and all(c in '0123456789abcdef' for c in line)"
IsCommitHash(line) ==
    Len(line) = HashLength /\ \A i \in 1..Len(line) : line[i] \in HexDigits

\* the name line is counted for the current commit
CountsName(line, commit, tracked_files) ==
    /\ ~IsCommitHash(line)
    /\ commit # None
    /\ line \in tracked_files
    /\ ~SkipsFile(line)

\* current_commit after a line
CurrentCommitAfter(line, commit) == IF IsCommitHash(line) THEN line ELSE commit

\* commit_files[current_commit].add(line) on the insertion-ordered dict
CommitFilesAdd(cf, commit, line) ==
    IF \E i \in 1..Len(cf) : cf[i].commit = commit
    THEN [ i \in 1..Len(cf) |->
             IF cf[i].commit = commit
             THEN [ cf[i] EXCEPT !.files = @ \cup { line } ] ELSE cf[i] ]
    ELSE Append(cf, [ commit |-> commit, files |-> { line } ])

\* "file_change_count[line] = 1": the count does not grow
ChangeCountAddOnce(fcc, line) ==
    [ f \in DOMAIN fcc \cup { line } |-> IF f = line THEN 1 ELSE fcc[f] ]

\* file_change_count[line] += 1 on the defaultdict(int)
ChangeCountAdd(fcc, line) ==
    [ f \in DOMAIN fcc \cup { line } |->
        IF f = line THEN (IF f \in DOMAIN fcc THEN fcc[f] ELSE 0) + 1 ELSE fcc[f] ]

\* the defaultdict(int) read file_change_count[f]
ChangeCountOf(fcc, f) == IF f \in DOMAIN fcc THEN fcc[f] ELSE 0

\* the defaults "min_coupling: int = 3, min_ratio: float = 0.3" (0.3 as 3/10: with
\* counts of at most MAX_COMMITS the float comparison agrees with the exact one)
MinCoupling == 3
MinRatioNum == 3
MinRatioDen == 10

\* "return couplings[:50]"
TopCouplings == 50

\* sorted(files) listed from the largest: an order the set could be iterated in
RECURSIVE UnsortedList(_)
UnsortedList(S) ==
    IF S = { } THEN << >>
    ELSE LET m == MinStr(S) IN UnsortedList(S \ { m }) \o << m >>

\* "file_list = sorted(files)"
FileListOf(files) == SortedList(files)

\* the pairs (file1, file2) the two nested loops visit, in loop order
RECURSIVE PairsOf(_)
PairsOf(file_list) ==
    IF Len(file_list) < 2 THEN << >>
    ELSE [ j \in 1..(Len(file_list) - 1) |-> << file_list[1], file_list[j + 1] >> ]
            \o PairsOf(Tail(file_list))

\* coupling_count[key] += 1 on the insertion-ordered defaultdict(int)
CouplingCountAdd(cc, key) ==
    IF \E i \in 1..Len(cc) : cc[i].key = key
    THEN [ i \in 1..Len(cc) |->
             IF cc[i].key = key THEN [ cc[i] EXCEPT !.count = @ + 1 ] ELSE cc[i] ]
    ELSE Append(cc, [ key |-> key, count |-> 1 ])

RECURSIVE AddPairs(_, _)
AddPairs(cc, pairs) ==
    IF pairs = << >> THEN cc
    ELSE LET added == CouplingCountAdd(cc, pairs[1])
         IN  \* the test has the dict computed before the next iteration starts
             IF added = << >> THEN added ELSE AddPairs(added, Tail(pairs))

\* the loop "for files in commit_files.values()" from the i-th commit on
RECURSIVE CouplingCountFrom(_, _, _)
CouplingCountFrom(cf, i, cc) ==
    IF i > Len(cf) THEN cc
    ELSE CouplingCountFrom(cf, i + 1, AddPairs(cc, PairsOf(FileListOf(cf[i].files))))

\* the ratio, relative to the more-changed file
CouplingRatioOfMax(count, changes1, changes2) ==
    LET max_changes == IF changes1 >= changes2 THEN changes1 ELSE changes2
    IN  IF max_changes > 0 THEN << count, max_changes >> ELSE << 0, 1 >>

\* "ratio = count / min_changes if min_changes > 0 else 0" as << numerator, denominator >>
CouplingRatio(count, changes1, changes2) ==
    LET min_changes == MinInt(changes1, changes2)
    IN  IF min_changes > 0 THEN << count, min_changes >> ELSE << 0, 1 >>

\* comparison of fractions with positive denominators
FracLess(p, q) == p[1] * q[2] < q[1] * p[2]
FracEq(p, q) == p[1] * q[2] = q[1] * p[2]

\* FilterCouplings without the test "ratio >= min_ratio"
FilterCouplingsCountOnly(cc, fcc, i) ==
    LET ratio(item) == CouplingRatio(item.count, ChangeCountOf(fcc, item.key[1]),
                                     ChangeCountOf(fcc, item.key[2]))
        kept == SelectSeq(SubSeq(cc, i, Len(cc)),
                          LAMBDA item :
                              ~(item.count < MinCoupling))
    IN  [ k \in 1..Len(kept) |->
            [ file1 |-> kept[k].key[1], file2 |-> kept[k].key[2],
              coupled_commits |-> kept[k].count, coupling_ratio |-> ratio(kept[k]) ] ]

\* the filter loop over coupling_count.items(), from the i-th item on
FilterCouplings(cc, fcc, i) ==
    LET ratio(item) == CouplingRatio(item.count, ChangeCountOf(fcc, item.key[1]),
                                     ChangeCountOf(fcc, item.key[2]))
        kept == SelectSeq(SubSeq(cc, i, Len(cc)),
                          LAMBDA item :
                              /\ ~(item.count < MinCoupling)
                              /\ ~FracLess(ratio(item), << MinRatioNum, MinRatioDen >>))
    IN  [ k \in 1..Len(kept) |->
            [ file1 |-> kept[k].key[1], file2 |-> kept[k].key[2],
              coupled_commits |-> kept[k].count, coupling_ratio |-> ratio(kept[k]) ] ]

\* sort keys are tuples of fractions << n, d >> (d > 0), compared as Python
\* compares tuples: the first differing component decides
RECURSIVE KeyLess(_, _)
KeyLess(k1, k2) ==
    IF k1 = << >> \/ k2 = << >> THEN FALSE
    ELSE IF FracLess(k1[1], k2[1]) THEN TRUE
    ELSE IF FracLess(k2[1], k1[1]) THEN FALSE
    ELSE KeyLess(Tail(k1), Tail(k2))

\* list.sort(key=..., reverse=True) / sorted(..., reverse=True): descending,
\* elements with equal keys keep their order; entries are [key, item]
InsertDesc(sorted, x) ==
    LET smaller == { i \in 1..Len(sorted) : KeyLess(sorted[i].key, x.key) }
        at == IF smaller = { } THEN Len(sorted) + 1
              ELSE CHOOSE i \in smaller : \A j \in smaller : i <= j
    IN  SubSeq(sorted, 1, at - 1) \o << x >> \o SubSeq(sorted, at, Len(sorted))

RECURSIVE SortDescFrom(_, _, _)
SortDescFrom(entries, i, sorted) ==
    IF i > Len(entries) THEN sorted
    ELSE LET inserted == InsertDesc(sorted, entries[i])
         IN  \* the test has the list computed before the next iteration starts
             IF inserted = << >> THEN inserted
             ELSE SortDescFrom(entries, i + 1, inserted)

\* the list sorted descending by the keys (keys[i] is the key of list[i])
SortDesc(list, keys) ==
    LET entries == [ i \in 1..Len(list) |-> [ key |-> keys[i], item |-> list[i] ] ]
        sorted == SortDescFrom(entries, 1, << >>)
    IN  [ i \in 1..Len(sorted) |-> sorted[i].item ]

\* list[:n] that keeps one element too many
TakeOneMore(list, n) == SubSeq(list, 1, MinInt(n + 1, Len(list)))

\* list[:n]
Take(list, n) == SubSeq(list, 1, MinInt(n, Len(list)))

\* the key (c.coupling_ratio, c.coupled_commits)
CouplingKey(c) == << c.coupling_ratio, << c.coupled_commits, 1 >> >>

\* analyze_temporal_coupling after the parse loop
CouplingsOf(cf, fcc) ==
    LET found == FilterCouplings(CouplingCountFrom(cf, 1, << >>), fcc, 1)
    IN  Take(SortDesc(found, [ i \in 1..Len(found) |-> CouplingKey(found[i]) ]),
             TopCouplings)

(***************************************************************************)
(* The coupling detector as a state machine.                               *)
(***************************************************************************)
\* one loop iteration of the parse loop on a line
ParseNameLine(line) ==
    /\ current_commit' = CurrentCommitAfter(line, current_commit)
    /\ IF CountsName(line, current_commit, CouplingTracked)
       THEN /\ commit_files' = CommitFilesAdd(commit_files, current_commit, line)
            /\ file_change_count' = ChangeCountAdd(file_change_count, line)
       ELSE UNCHANGED << commit_files, file_change_count >>

\* git prints the hash line of the next commit
CouplingHeader ==
    /\ tc_pc = "parse"
    /\ tc_commits < MaxCouplingCommits
    /\ tc_commits' = tc_commits + 1
    /\ ParseNameLine(Sha(tc_commits + 1))
    /\ UNCHANGED << tc_pc, couplings >>
    /\ UNCHANGED otherThanCoupling

\* the files the dict holds for a commit
FilesOfCommit(cf, commit) ==
    IF \E i \in 1..Len(cf) : cf[i].commit = commit
    THEN (CHOOSE e \in Range(cf) : e.commit = commit).files
    ELSE { }

\* git prints one more path of the current commit (each path once per commit)
CouplingName(filepath) ==
    /\ tc_pc = "parse"
    /\ tc_commits > 0
    /\ filepath \notin FilesOfCommit(commit_files, current_commit)
    /\ filepath = FileC => tc_commits \in CommitsNamingC
    /\ ParseNameLine(filepath)
    /\ UNCHANGED << tc_pc, tc_commits, couplings >>
    /\ UNCHANGED otherThanCoupling

\* the log is exhausted: count the pairs, filter, sort and return the top 50
CouplingFinish ==
    /\ tc_pc = "parse"
    /\ tc_pc' = "done"
    /\ couplings' = CouplingsOf(commit_files, file_change_count)
    /\ UNCHANGED << tc_commits, current_commit, commit_files, file_change_count >>
    /\ UNCHANGED otherThanCoupling

InitCoupling == GraphIdle /\ LogIdle /\ ExclusionIdle /\ FilesIdle /\ HookIdle /\ CouplingIdle /\ PriorityIdle /\ SnapshotIdle

NextCoupling ==
    \/ CouplingHeader
    \/ \E filepath \in CouplingPaths : CouplingName(filepath)
    \/ CouplingFinish

SpecCoupling == InitCoupling /\ [][NextCoupling]_vars


(***************************************************************************)
(* Claims about temporal coupling (checked under SpecCoupling).            *)
(***************************************************************************)
\* the commits whose filtered file set contains the file, and both files
TouchCount(f) ==
    Cardinality({ i \in 1..Len(commit_files) : f \in commit_files[i].files })

SharedCount(f, g) ==
    Cardinality({ i \in 1..Len(commit_files) :
                    f \in commit_files[i].files /\ g \in commit_files[i].files })

\* C9: for every emitted pair, coupled_commits is the number of commits whose
\* filtered file set contains both files and coupling_ratio is coupled_commits
\* over the smaller of the two files' change counts; two files each in 5
\* commits, 4 of them shared, are emitted with coupled_commits = 4 and
\* coupling_ratio = 0.8.
C9_CouplingCounts ==
    tc_pc = "done" =>
        /\ \A k \in 1..Len(couplings) :
              LET e == couplings[k]
                  smaller == MinInt(TouchCount(e.file1), TouchCount(e.file2))
              IN  /\ e.coupled_commits = SharedCount(e.file1, e.file2)
                  /\ smaller > 0
                  /\ e.coupling_ratio[2] > 0
                  /\ FracEq(e.coupling_ratio, << e.coupled_commits, smaller >>)
        /\ (TouchCount(FileA) = 5 /\ TouchCount(FileB) = 5
                /\ SharedCount(FileA, FileB) = 4) =>
              \E k \in 1..Len(couplings) :
                  /\ couplings[k].file1 = FileA
                  /\ couplings[k].file2 = FileB
                  /\ couplings[k].coupled_commits = 4
                  /\ FracEq(couplings[k].coupling_ratio, << 8, 10 >>)

\* a.ts and b.ts are each in 5 commits, 4 of them shared, and the pairs were emitted
C9_Witness ==
    /\ tc_pc = "done"
    /\ TouchCount(FileA) = 5
    /\ TouchCount(FileB) = 5
    /\ SharedCount(FileA, FileB) = 4
    /\ couplings # << >>

Reverse(s) == [ i \in 1..Len(s) |-> s[Len(s) + 1 - i] ]

Rotate(s, k) == [ i \in 1..Len(s) |-> s[((i - 1 + k) % Len(s)) + 1] ]

\* the commits in other arrival orders: newest last, and the newest moved to the end
Reorderings(s) == IF s = << >> THEN { } ELSE { Reverse(s), Rotate(s, 1) }

\* C10: each unordered pair is represented by one canonical key (file1
\* lexicographically before file2) and appears at most once in the output; the
\* emitted pairs with their counts and ratios are the same in whatever order
\* the commits arrive (the files of a commit are a set: their order is lost on
\* insertion).
C10_SymmetricPairs ==
    tc_pc = "done" =>
        /\ \A k \in 1..Len(couplings) : StrLess(couplings[k].file1, couplings[k].file2)
        /\ \A j, k \in 1..Len(couplings) :
              j # k => { couplings[j].file1, couplings[j].file2 }
                          # { couplings[k].file1, couplings[k].file2 }
        /\ \A r \in Reorderings(commit_files) :
              Range(CouplingsOf(r, file_change_count)) = Range(couplings)

\* several pairs were emitted from commits whose file sets differ
C10_Witness ==
    /\ tc_pc = "done"
    /\ Len(couplings) >= 2
    /\ \E i, j \in 1..Len(commit_files) : commit_files[i].files # commit_files[j].files

\* C27: for every counted pair the co-change count never exceeds the change
\* count of either file, so the divisor of the ratio is never zero and every
\* emitted coupling_ratio lies in (0, 1].
C27_RatioInUnitInterval ==
    LET counted == CouplingCountFrom(commit_files, 1, << >>)
    IN  /\ \A k \in 1..Len(counted) :
              /\ counted[k].count >= 1
              /\ counted[k].count <= ChangeCountOf(file_change_count, counted[k].key[1])
              /\ counted[k].count <= ChangeCountOf(file_change_count, counted[k].key[2])
        /\ \A k \in 1..Len(couplings) :
              /\ couplings[k].coupling_ratio[2] > 0
              /\ couplings[k].coupling_ratio[1] > 0
              /\ couplings[k].coupling_ratio[1] <= couplings[k].coupling_ratio[2]

\* one emitted pair changed together in every commit of its less-changed
\* file, another in 3 of 4
C27_Witness ==
    /\ tc_pc = "done"
    /\ \E k \in 1..Len(couplings) : couplings[k].coupling_ratio = << 3, 4 >>
    /\ \E k \in 1..Len(couplings) :
          couplings[k].coupling_ratio[1] = couplings[k].coupling_ratio[2]

(***************************************************************************)
(* The coupling filter on histories long enough for a pair to pass the     *)
(* count threshold and miss the ratio threshold.                           *)
(***************************************************************************)
\* a fourth file with history
FileD == << "s", "r", "c", "/", "d", ".", "t", "s" >>

\* the hash of the n-th commit of a longer history
LongSha(n) ==
    [ i \in 1..HashLength |->
        IF i = HashLength THEN Digits[(n % 10) + 1]
        ELSE IF i = HashLength - 1 THEN Digits[(n \div 10) + 1] ELSE "0" ]

\* the numbers of commits that name a.ts and b.ts together, a.ts alone and
\* b.ts alone
SharedCommits == 0..4
CommitsOfAAlone == { 0, 4, 8 }
CommitsOfBAlone == { 0, 8 }

\* the files of the k-th commit: the first s commits name a.ts and b.ts, the
\* first c of them also c.ts and the first d of them also d.ts; then ea
\* commits name a.ts alone and eb commits b.ts alone
FilesOfLong(k, s, c, d, ea) ==
    IF k <= s
    THEN { FileA, FileB } \cup (IF k <= c THEN { FileC } ELSE { })
                         \cup (IF k <= d THEN { FileD } ELSE { })
    ELSE IF k <= s + ea THEN { FileA } ELSE { FileB }

\* the parse loop of analyze_temporal_coupling has read such a history
LongHistory(s, c, d, ea, eb) ==
    LET n == s + ea + eb
        touched == { f \in { FileA, FileB, FileC, FileD } :
                       \E k \in 1..n : f \in FilesOfLong(k, s, c, d, ea) }
    IN  /\ tc_pc = "parse"
        /\ tc_commits = n
        /\ current_commit = IF n = 0 THEN None ELSE LongSha(n)
        /\ commit_files = [ k \in 1..n |->
                              [ commit |-> LongSha(k),
                                files |-> FilesOfLong(k, s, c, d, ea) ] ]
        /\ file_change_count =
              [ f \in touched |->
                  Cardinality({ k \in 1..n : f \in FilesOfLong(k, s, c, d, ea) }) ]
        /\ couplings = << >>

InitThresholds ==
    /\ GraphIdle /\ LogIdle /\ ExclusionIdle /\ FilesIdle /\ HookIdle /\ PriorityIdle /\ SnapshotIdle
    /\ \E s \in SharedCommits, ea \in CommitsOfAAlone, eb \in CommitsOfBAlone :
          \E c \in 0..s : \E d \in 0..c : LongHistory(s, c, d, ea, eb)

NextThresholds == CouplingFinish

SpecThresholds == InitThresholds /\ [][NextThresholds]_vars

\* the files the commits name
TouchedFiles == UNION { commit_files[i].files : i \in 1..Len(commit_files) }

\* the pair passes both thresholds: at least 3 shared commits, and at least
\* 0.3 of the commits of the less-changed file
PassesThresholds(f, g) ==
    /\ SharedCount(f, g) >= 3
    /\ 10 * SharedCount(f, g) >= 3 * MinInt(TouchCount(f), TouchCount(g))

\* C22: analyze_temporal_coupling emits a pair if and only if (before the
\* top-50 cut) its co-change count is at least min_coupling and its ratio is at
\* least min_ratio, and the emitted list is ordered by (coupling_ratio,
\* coupled_commits) descending.
C22_ThresholdsAndOrder ==
    tc_pc = "done" =>
        /\ \A f, g \in TouchedFiles :
              StrLess(f, g) =>
                  ((\E k \in 1..Len(couplings) :
                        couplings[k].file1 = f /\ couplings[k].file2 = g)
                      <=> PassesThresholds(f, g))
        /\ \A k \in 1..(Len(couplings) - 1) :
              LET x == couplings[k]
                  y == couplings[k + 1]
                  left == x.coupling_ratio[1] * y.coupling_ratio[2]
                  right == y.coupling_ratio[1] * x.coupling_ratio[2]
              IN  \/ left > right
                  \/ left = right /\ x.coupled_commits >= y.coupled_commits

\* a.ts and b.ts share 3 of their 11 commits each and are not emitted, while
\* other pairs are
C22_Witness ==
    /\ tc_pc = "done"
    /\ SharedCount(FileA, FileB) = 3
    /\ TouchCount(FileA) = 11 /\ TouchCount(FileB) = 11
    /\ \A k \in 1..Len(couplings) :
          ~(couplings[k].file1 = FileA /\ couplings[k].file2 = FileB)
    /\ Len(couplings) >= 2


(***************************************************************************)
(* git_analysis.py get_hotspots and snapshot.py compute_priority_hotspots. *)
(***************************************************************************)
\* FileStats.churn
Churn(stats) == stats.lines_added + stats.lines_removed

\* FileStats.to_dict (age_days, read off the clock, is left out)
ToDict(stats) ==
    [ path |-> stats.path, change_count |-> stats.change_count,
      lines_added |-> stats.lines_added, lines_removed |-> stats.lines_removed,
      churn |-> Churn(stats), author_count |-> Cardinality(stats.authors),
      authors |-> SortedList(stats.authors),
      last_modified |-> stats.last_modified, first_seen |-> stats.first_seen ]

\* "top_n: int = 30"
TopHotspots == 30

\* "key=lambda s: (s.change_count, s.churn)"
HotspotKey(stats) == << << stats.change_count, 1 >>, << Churn(stats), 1 >> >>

\* get_hotspots(file_stats) on the dict's values
GetHotspots(stats_values) ==
    LET sorted_files ==
            SortDesc(stats_values,
                     [ i \in 1..Len(stats_values) |-> HotspotKey(stats_values[i]) ])
        top == Take(sorted_files, TopHotspots)
    IN  [ i \in 1..Len(top) |-> ToDict(top[i]) ]

\* s1 + s2 + ... on lists
RECURSIVE Flatten(_)
Flatten(lists) == IF lists = << >> THEN << >> ELSE lists[1] \o Flatten(Tail(lists))

\* complexity_by_path: a later record of a path replaces an earlier one
ComplexityByPath(data) ==
    LET records == Flatten(data)
    IN  [ path \in { records[i].path : i \in 1..Len(records) } |->
            records[CHOOSE i \in 1..Len(records) :
                      /\ records[i].path = path
                      /\ \A j \in (i + 1)..Len(records) : records[j].path # path] ]

\* the score with the complexity subtracted where it should multiply
PriorityScoreDifference(change_count, max_complexity) == change_count - max_complexity

\* the score with the complexity added where it should multiply
PriorityScoreSum(change_count, max_complexity) == change_count + max_complexity

\* "priority_score = change_count * max_complexity"
PriorityScore(change_count, max_complexity) == change_count * max_complexity

\* the dict appended for a hotspot
PriorityEntry(hotspot, complexity_by_path) ==
    LET path == hotspot.path
        known == path \in DOMAIN complexity_by_path
        max_complexity == IF known THEN complexity_by_path[path].max_complexity ELSE 1
    IN  [ path |-> path,
          change_count |-> hotspot.change_count,
          churn |-> hotspot.churn,
          max_complexity |-> max_complexity,
          avg_complexity |-> IF known THEN complexity_by_path[path].avg_complexity ELSE 0,
          code_lines |-> IF known THEN complexity_by_path[path].code_lines ELSE 0,
          priority_score |-> PriorityScore(hotspot.change_count, max_complexity) ]

\* "return priority_hotspots[:20]"
TopPriority == 20

\* compute_priority_hotspots(git_data, complexity_data)
ComputePriorityHotspots(hotspot_list, data) ==
    LET complexity_by_path == ComplexityByPath(data)
        entries == [ i \in 1..Len(hotspot_list) |->
                       PriorityEntry(hotspot_list[i], complexity_by_path) ]
        sorted == SortDesc(entries,
                           [ i \in 1..Len(entries) |->
                               << << entries[i].priority_score, 1 >> >> ])
    IN  Take(sorted, TopPriority)


(***************************************************************************)
(* The priority aggregator on bounded inputs: a repository whose history   *)
(* names a block of generated files, each changed GenChanges times and     *)
(* without a complexity record, and up to two hand-written files that the  *)
(* log names first before or after that block.                             *)
(***************************************************************************)
GenFile(i) ==
    << "g", "e", "n", "/", Digits[(i \div 10) + 1], Digits[(i % 10) + 1], ".", "t", "s" >>

GeneratedStats(i) ==
    [ NewFileStats(GenFile(i)) EXCEPT !.change_count = GenChanges,
                                      !.lines_added = GenChanges,
                                      !.authors = { AuthorAnn } ]

Generated(n) == [ i \in 1..n |-> GeneratedStats(i) ]

GeneratedCounts == { 0, 1, MaxGenerated - 1, MaxGenerated }

HandWritten == { FileA, FileB }
ChangeCounts == { 5, 10 }
LinesAdded == { 10, 20 }
Complexities == { 20, 30 }

HandWrittenStats ==
    { [ NewFileStats(path) EXCEPT !.change_count = cc, !.lines_added = la,
                                  !.authors = { AuthorAnn } ] :
        path \in HandWritten, cc \in ChangeCounts, la \in LinesAdded }

\* the hand-written files in the order the log first names them
HandWrittenSeqs ==
    { << >> } \cup { << x >> : x \in HandWrittenStats }
        \cup { pr \in HandWrittenStats \X HandWrittenStats : pr[1].path # pr[2].path }

FileStatsInputs ==
    { SubSeq(sp[1], 1, sp[2]) \o Generated(n) \o SubSeq(sp[1], sp[2] + 1, Len(sp[1])) :
        sp \in { q \in HandWrittenSeqs \X (0..2) : q[2] <= Len(q[1]) },
        n \in GeneratedCounts }

\* a record of the complexity analysis (FileComplexity.to_dict)
ComplexityRecord(path, max_complexity) ==
    [ path |-> path, max_complexity |-> max_complexity,
      avg_complexity |-> max_complexity, code_lines |-> 100 ]

\* by_language: the python list (empty) and the typescript list
ComplexityInputs ==
    { << << >>, SortDesc(recs, [ i \in 1..Len(recs) |->
                                   << << recs[i].max_complexity, 1 >> >> ]) >> :
        recs \in { << >> }
                   \cup { << ComplexityRecord(path, mc) >> :
                            path \in HandWritten, mc \in Complexities }
                   \cup { << ComplexityRecord(FileA, ma), ComplexityRecord(FileB, mb) >> :
                            ma \in Complexities, mb \in Complexities } }

\* "stats.change_count >= 3" and "knowledge_silos[:20]"
MinSiloChanges == 3
TopSilos == 20

\* the elements of a list that satisfy "author_count == 1 and change_count >= 3"
RECURSIVE SilosOf(_)
SilosOf(stats_values) ==
    IF stats_values = << >> THEN << >>
    ELSE LET stats == stats_values[1]
         IN  (IF Cardinality(stats.authors) = 1 /\ stats.change_count >= MinSiloChanges
              THEN << [ path |-> stats.path,
                        sole_author |-> SortedList(stats.authors)[1],
                        change_count |-> stats.change_count ] >>
              ELSE << >>) \o SilosOf(Tail(stats_values))

\* sum(f(x) for x in list)
RECURSIVE SumOf(_)
SumOf(numbers) == IF numbers = << >> THEN 0 ELSE numbers[1] + SumOf(Tail(numbers))

\* round(numerator / denominator, 3) in thousandths: the nearest thousandth, a
\* tie going to the even one (the quotients here that tie are exact floats)
Thousand == 1000
Round3(numerator, denominator) ==
    LET q == (Thousand * numerator) \div denominator
        r == (Thousand * numerator) % denominator
    IN  IF 2 * r < denominator THEN q
        ELSE IF 2 * r > denominator THEN q + 1
        ELSE IF q % 2 = 0 THEN q ELSE q + 1

\* calculate_bus_factor with the authors counted once per file they touched
CalculateBusFactorPerFileAuthors(stats_values) ==
    LET all_authors == UNION { stats_values[i].authors : i \in 1..Len(stats_values) }
        single_author_files ==
            { i \in 1..Len(stats_values) : Cardinality(stats_values[i].authors) = 1 }
        silos == SilosOf(stats_values)
        sorted == SortDesc(silos, [ i \in 1..Len(silos) |->
                                      << << silos[i].change_count, 1 >> >> ])
    IN  [ total_authors |-> SumOf([ i \in 1..Len(stats_values) |->
                                     Cardinality(stats_values[i].authors) ]),
          single_author_file_count |-> Cardinality(single_author_files),
          single_author_file_ratio |->
              IF stats_values # << >>
              THEN << Round3(Cardinality(single_author_files), Len(stats_values)),
                      Thousand >>
              ELSE << 0, 1 >>,
          knowledge_silos |->
              [ i \in 1..Len(Take(sorted, TopSilos)) |->
                  [ path |-> sorted[i].path, sole_author |-> sorted[i].sole_author ] ] ]

\* calculate_bus_factor(file_stats); the ratio as << thousandths, 1000 >>
CalculateBusFactor(stats_values) ==
    LET all_authors == UNION { stats_values[i].authors : i \in 1..Len(stats_values) }
        single_author_files ==
            { i \in 1..Len(stats_values) : Cardinality(stats_values[i].authors) = 1 }
        silos == SilosOf(stats_values)
        sorted == SortDesc(silos, [ i \in 1..Len(silos) |->
                                      << << silos[i].change_count, 1 >> >> ])
    IN  [ total_authors |-> Cardinality(all_authors),
          single_author_file_count |-> Cardinality(single_author_files),
          single_author_file_ratio |->
              IF stats_values # << >>
              THEN << Round3(Cardinality(single_author_files), Len(stats_values)),
                      Thousand >>
              ELSE << 0, 1 >>,
          knowledge_silos |->
              [ i \in 1..Len(Take(sorted, TopSilos)) |->
                  [ path |-> sorted[i].path, sole_author |-> sorted[i].sole_author ] ] ]

\* "bus_factor = calculate_bus_factor(file_stats)" of analyze_repository
PhBusFactor ==
    /\ p_pc = "bus_factor"
    /\ bus_factor' = CalculateBusFactor(hs_file_stats)
    /\ p_pc' = "hotspots"
    /\ UNCHANGED << hs_file_stats, complexity_data, hotspots, priority_hotspots >>
    /\ UNCHANGED otherThanPriority

\* "hotspots = get_hotspots(file_stats)" of analyze_repository
PhGetHotspots ==
    /\ p_pc = "hotspots"
    /\ hotspots' = GetHotspots(hs_file_stats)
    /\ p_pc' = "priority"
    /\ UNCHANGED << hs_file_stats, complexity_data, bus_factor, priority_hotspots >>
    /\ UNCHANGED otherThanPriority

\* "priority_hotspots = compute_priority_hotspots(git_data, complexity_data)"
PhComputePriority ==
    /\ p_pc = "priority"
    /\ priority_hotspots' = ComputePriorityHotspots(hotspots, complexity_data)
    /\ p_pc' = "done"
    /\ UNCHANGED << hs_file_stats, complexity_data, bus_factor, hotspots >>
    /\ UNCHANGED otherThanPriority

InitPriority ==
    /\ GraphIdle /\ LogIdle /\ ExclusionIdle /\ FilesIdle /\ HookIdle /\ CouplingIdle /\ SnapshotIdle
    /\ p_pc = "bus_factor"
    /\ hs_file_stats \in FileStatsInputs
    /\ complexity_data \in ComplexityInputs
    /\ bus_factor = << >>
    /\ hotspots = << >>
    /\ priority_hotspots = << >>

NextPriority == PhBusFactor \/ PhGetHotspots \/ PhComputePriority

SpecPriority == InitPriority /\ [][NextPriority]_vars

(***************************************************************************)
(* Claims about the priority aggregator (checked under SpecPriority).      *)
(***************************************************************************)
\* the max complexity supplied for a path, 1 when it has no complexity record
SuppliedComplexity(path) ==
    LET records == Flatten(complexity_data)
    IN  IF \E i \in 1..Len(records) : records[i].path = path
        THEN (CHOOSE r \in Range(records) : r.path = path).max_complexity
        ELSE 1

Listed(path) == \E k \in 1..Len(priority_hotspots) : priority_hotspots[k].path = path

\* C6: the priority list is the top 20 by priority_score over all files with
\* history: no file with history that is absent from it has a strictly higher
\* change_count x max_complexity than a listed file.
C6_TopOverAllFiles ==
    p_pc = "done" =>
        \A i \in 1..Len(hs_file_stats) :
            ~Listed(hs_file_stats[i].path) =>
                \A k \in 1..Len(priority_hotspots) :
                    hs_file_stats[i].change_count
                            * SuppliedComplexity(hs_file_stats[i].path)
                        <= priority_hotspots[k].priority_score

\* C7: for the same files with the same change counts and complexities the
\* priority list is the same ordered list whatever order the files arrive in.
C7_OrderIndependent ==
    p_pc = "done" =>
        ComputePriorityHotspots(GetHotspots(Reverse(hs_file_stats)), complexity_data)
            = priority_hotspots

\* C8: every entry has priority_score = change_count x max_complexity, with
\* max_complexity the supplied value or 1 when the path has no complexity
\* record; the list is in non-increasing priority_score order; an entry with
\* change_count 10 and max_complexity 20 is above one with 5 and 30.
C8_ScoreAndOrder ==
    p_pc = "done" =>
        /\ \A k \in 1..Len(priority_hotspots) :
              LET e == priority_hotspots[k]
              IN  /\ e.max_complexity = SuppliedComplexity(e.path)
                  /\ \E i \in 1..Len(hs_file_stats) :
                        /\ hs_file_stats[i].path = e.path
                        /\ hs_file_stats[i].change_count = e.change_count
                  /\ e.priority_score = e.change_count * e.max_complexity
        /\ \A k \in 1..(Len(priority_hotspots) - 1) :
              priority_hotspots[k].priority_score
                  >= priority_hotspots[k + 1].priority_score
        /\ \A j, k \in 1..Len(priority_hotspots) :
              ( /\ priority_hotspots[j].change_count = 10
                /\ priority_hotspots[j].max_complexity = 20
                /\ priority_hotspots[k].change_count = 5
                /\ priority_hotspots[k].max_complexity = 30 ) => j < k

\* the list holds a (10, 20) file that arrived after a (5, 30) file, and a file
\* without a complexity record
C8_Witness ==
    /\ p_pc = "done"
    /\ Len(hs_file_stats) = 3
    /\ hs_file_stats[1].change_count = 5
    /\ hs_file_stats[3].change_count = 10
    /\ \E j, k \in 1..Len(priority_hotspots) :
          /\ priority_hotspots[j].priority_score = 200
          /\ priority_hotspots[j].max_complexity = 20
          /\ priority_hotspots[k].priority_score = 150
          /\ priority_hotspots[k].max_complexity = 30
    /\ \E k \in 1..Len(priority_hotspots) :
          /\ priority_hotspots[k].max_complexity = 1
          /\ priority_hotspots[k].priority_score = GenChanges


(***************************************************************************)
(* The score on two files side by side: a.ts and b.ts with any change      *)
(* counts and complexities in 0..MaxScoreInput.                            *)
(***************************************************************************)
ScoreInputs == 0..MaxScoreInput

InitScore ==
    /\ GraphIdle /\ LogIdle /\ ExclusionIdle /\ FilesIdle /\ HookIdle /\ CouplingIdle /\ SnapshotIdle
    /\ p_pc = "bus_factor"
    /\ \E ca, cb \in ScoreInputs :
          hs_file_stats = << [ NewFileStats(FileA) EXCEPT !.change_count = ca ],
                             [ NewFileStats(FileB) EXCEPT !.change_count = cb ] >>
    /\ \E ma, mb \in ScoreInputs :
          complexity_data = << << >>, << ComplexityRecord(FileA, ma),
                                         ComplexityRecord(FileB, mb) >> >>
    /\ bus_factor = << >>
    /\ hotspots = << >>
    /\ priority_hotspots = << >>

SpecScore == InitScore /\ [][NextPriority]_vars

\* C12: priority_score is monotonically non-decreasing in change_count with
\* max_complexity held fixed, and in max_complexity with change_count held
\* fixed, for non-negative inputs: of two scored files that agree on one
\* input, the one with the larger other input has no smaller score.
C12_ScoreMonotone ==
    p_pc = "done" =>
        \A j, k \in 1..Len(priority_hotspots) :
            LET x == priority_hotspots[j]
                y == priority_hotspots[k]
            IN  /\ (x.max_complexity = y.max_complexity
                        /\ x.change_count <= y.change_count) =>
                      x.priority_score <= y.priority_score
                /\ (x.change_count = y.change_count
                        /\ x.max_complexity <= y.max_complexity) =>
                      x.priority_score <= y.priority_score

\* two files with the same complexity and different change counts got
\* different scores
C12_Witness ==
    /\ p_pc = "done"
    /\ Len(priority_hotspots) = 2
    /\ priority_hotspots[1].max_complexity = priority_hotspots[2].max_complexity
    /\ priority_hotspots[1].change_count > priority_hotspots[2].change_count
    /\ priority_hotspots[1].priority_score > priority_hotspots[2].priority_score

(***************************************************************************)
(* calculate_bus_factor on file histories with one or two authors.         *)
(***************************************************************************)
\* the files with history, in the insertion order of the file_stats dict
BusFactorFiles == << FileA, FileB, FileC >>

\* the change counts around "stats.change_count >= 3"
SiloChangeCounts == { 2, 3 }

\* the author sets of a file with history
AuthorSets == { { AuthorAnn }, { AuthorBob }, { AuthorAnn, AuthorBob } }

\* the file_stats of the first n files
BusFactorInputs(n) ==
    { stats_values \in [ 1..n -> [ path : Range(BusFactorFiles),
                                     change_count : SiloChangeCounts,
                                     authors : AuthorSets ] ] :
        \A i \in 1..n : stats_values[i].path = BusFactorFiles[i] }

InitBusFactor ==
    /\ GraphIdle /\ LogIdle /\ ExclusionIdle /\ FilesIdle /\ HookIdle /\ CouplingIdle /\ SnapshotIdle
    /\ p_pc = "bus_factor"
    /\ \E n \in 0..Len(BusFactorFiles) : \E stats_values \in BusFactorInputs(n) :
          hs_file_stats = [ i \in 1..n |->
                              [ NewFileStats(stats_values[i].path) EXCEPT
                                  !.change_count = stats_values[i].change_count,
                                  !.authors = stats_values[i].authors ] ]
    /\ complexity_data = << << >>, << ComplexityRecord(FileA, 1) >> >>
    /\ bus_factor = << >>
    /\ hotspots = << >>
    /\ priority_hotspots = << >>

SpecBusFactor == InitBusFactor /\ [][NextPriority]_vars

\* the files of file_stats with exactly one author
SingleAuthorFiles ==
    { i \in 1..Len(hs_file_stats) : Cardinality(hs_file_stats[i].authors) = 1 }

\* a file is among the knowledge silos iff it has exactly one author and at
\* least 3 changes, and it is listed with that author
SilosAreSoleAuthored ==
    \A i \in 1..Len(hs_file_stats) :
        LET stats == hs_file_stats[i]
            listed == { k \in 1..Len(bus_factor.knowledge_silos) :
                          bus_factor.knowledge_silos[k].path = stats.path }
        IN  /\ (listed # { }) <=>
                   (Cardinality(stats.authors) = 1 /\ stats.change_count >= 3)
            /\ \A k \in listed :
                   stats.authors = { bus_factor.knowledge_silos[k].sole_author }

\* total_authors is the number of distinct authors over all files
TotalAuthorsDistinct ==
    bus_factor.total_authors =
        Cardinality({ a \in { AuthorAnn, AuthorBob } :
                        \E i \in 1..Len(hs_file_stats) : a \in hs_file_stats[i].authors })

\* C15 as stated: a file is a knowledge silo iff it has exactly one author and
\* change_count >= 3, total_authors is the number of distinct authors, and
\* single_author_file_ratio is exactly (single-author files) / (all files
\* with history), 0 when there is no history.
C15_ExactRatio ==
    p_pc # "bus_factor" =>
        LET ratio == bus_factor.single_author_file_ratio
        IN  /\ SilosAreSoleAuthored
            /\ TotalAuthorsDistinct
            /\ ratio[2] > 0
            /\ ratio[1] * Len(hs_file_stats) = Cardinality(SingleAuthorFiles) * ratio[2]

\* C15 amended: as above, with single_author_file_ratio the quotient rounded
\* to three decimal places: a whole number of thousandths no more than half a
\* thousandth away from the quotient, and 0 when there is no history.
C15_RoundedRatio ==
    p_pc # "bus_factor" =>
        LET ratio == bus_factor.single_author_file_ratio
            n == Cardinality(SingleAuthorFiles)
            d == Len(hs_file_stats)
            diff == ratio[1] * d - 1000 * n
        IN  /\ SilosAreSoleAuthored
            /\ TotalAuthorsDistinct
            /\ IF d = 0 THEN ratio[1] = 0
               ELSE /\ ratio[2] = 1000
                    /\ 2 * diff <= d /\ -2 * diff <= d

C15_Witness ==
    /\ p_pc # "bus_factor"
    /\ Len(hs_file_stats) = 3
    /\ Len(bus_factor.knowledge_silos) = 1
    /\ bus_factor.total_authors = 2
    /\ bus_factor.single_author_file_ratio = << 667, 1000 >>
    /\ \E i \in 1..3 : /\ Cardinality(hs_file_stats[i].authors) = 1
                       /\ hs_file_stats[i].change_count = 2

(***************************************************************************)
(* git_analysis.py analyze_repository on the text git prints.              *)
(***************************************************************************)
\* the lines of "git log --numstat --format=%H|%aI|%aN" for the commits
RECURSIVE NumstatLog(_, _)
NumstatLog(commits, n) ==
    IF n > Len(commits) THEN << >>
    ELSE << HeaderLine(Sha(n), commits[n].date, commits[n].author) >>
            \o [ k \in 1..Len(commits[n].paths) |->
                   StatLine(NumstatOf(commits[n].paths[k])[1],
                            NumstatOf(commits[n].paths[k])[2], commits[n].paths[k]) ]
            \o NumstatLog(commits, n + 1)

\* the lines of "git log --name-only --format=%H" for the commits
RECURSIVE NameOnlyLog(_, _)
NameOnlyLog(commits, n) ==
    IF n > Len(commits) THEN << >>
    ELSE << Sha(n) >> \o commits[n].paths \o NameOnlyLog(commits, n + 1)

\* the loop of analyze_git_log over the lines: the dict as the FileStats by
\* path and the paths in insertion order
RECURSIVE ParseGitLog(_, _, _, _, _, _)
ParseGitLog(lines, i, tracked_files, info, stats, order) ==
    IF i > Len(lines) THEN [ k \in 1..Len(order) |-> stats[order[k]] ]
    ELSE LET after == FileStatsAfter(lines[i], info, tracked_files, stats)
             inserted == DOMAIN after \ DOMAIN stats
         IN  ParseGitLog(lines, i + 1, tracked_files, CommitInfoAfter(lines[i], info),
                         after, order \o SortedList(inserted))

\* the loop of analyze_temporal_coupling over the lines, then the pairs
RECURSIVE ParseNameOnlyLog(_, _, _, _, _, _)
ParseNameOnlyLog(lines, i, tracked_files, commit, cf, fcc) ==
    IF i > Len(lines) THEN CouplingsOf(cf, fcc)
    ELSE LET counted == CountsName(lines[i], commit, tracked_files)
         IN  ParseNameOnlyLog(lines, i + 1, tracked_files,
                              CurrentCommitAfter(lines[i], commit),
                              IF counted THEN CommitFilesAdd(cf, commit, lines[i]) ELSE cf,
                              IF counted THEN ChangeCountAdd(fcc, lines[i]) ELSE fcc)

\* the dictionary analyze_repository returns
GitData(stats_values, temporal_coupling) ==
    [ hotspots |-> GetHotspots(stats_values),
      temporal_coupling |-> temporal_coupling,
      bus_factor |-> CalculateBusFactor(stats_values),
      summary |->
          [ files_analyzed |-> Len(stats_values),
            total_changes |->
                SumOf([ i \in 1..Len(stats_values) |-> stats_values[i].change_count ]),
            total_churn |->
                SumOf([ i \in 1..Len(stats_values) |-> Churn(stats_values[i]) ]) ] ]


(***************************************************************************)
(* dependency_analysis.py analyze_dependencies and snapshot.py.            *)
(***************************************************************************)
\* max(list) if list else 0
MaxOf(S) == IF S = { } THEN 0 ELSE CHOOSE x \in S : \A y \in S : y <= x

\* analyze_dependencies: the graph and the totals of its summary (the searches
\* over the graph are the subject of SpecGraph)
AnalyzeDependencies(files, file_texts, root, gitignore) ==
    LET graph == BuildDependencyGraph(files, file_texts, root, gitignore)
        paths == SortedList(DOMAIN graph)
    IN  [ summary |->
              [ total_modules |-> Len(paths),
                total_dependencies |->
                    SumOf([ i \in 1..Len(paths) |-> FanOut(graph[paths[i]]) ]),
                max_fan_out |-> MaxOf({ FanOut(graph[f]) : f \in DOMAIN graph }),
                max_fan_in |-> MaxOf({ FanIn(graph[f]) : f \in DOMAIN graph }) ],
          modules |-> graph ]

\* get_git_info: the four commands succeeded, or one of them raised
GitInfo(outcome) ==
    IF outcome = "ok"
    THEN [ sha |-> "sha", short_sha |-> "short", branch |-> "main", message |-> "message" ]
    ELSE [ sha |-> "unknown", short_sha |-> "unknown", branch |-> "unknown",
           message |-> "" ]

\* compute_summary_metrics: the entries read off the git and dependency data
ComputeSummaryMetrics(git, dependencies) ==
    [ files_with_changes |-> git.summary.files_analyzed,
      total_changes |-> git.summary.total_changes,
      total_churn |-> git.summary.total_churn,
      module_count |-> dependencies.summary.total_modules,
      single_author_file_ratio |-> git.bus_factor.single_author_file_ratio,
      total_authors |-> git.bus_factor.total_authors ]

\* how a subprocess.run(["git", ...], check=True, timeout=...) can end
GitOutcomes ==
    IF git_installed THEN { "ok", "CalledProcessError", "TimeoutExpired" }
    ELSE { "FileNotFoundError" }

\* the histories of the repositories the run is tried on
Commit(date, author, paths) == [ date |-> date, author |-> author, paths |-> paths ]

RepoHistories ==
    { << >>,
      << Commit("2024-05-01T09:00:00Z", AuthorAnn, << FileA, FileB >>) >>,
      << Commit("2024-05-01T09:00:00Z", AuthorBob, << FileB >>),
         Commit("2024-05-01T09:00:00Z", AuthorAnn, << FileA, FileB >>),
         Commit("2024-03-01T09:00:00+00:00", AuthorAnn, << FileA, FileB, FileOld >>),
         Commit("2024-03-01T09:00:00+00:00", AuthorAnn, << FileA, FileB >>) >> }

RepoTexts ==
    { [ f \in SourceFiles |-> { } ],
      [ f \in SourceFiles |->
          IF f = FileA THEN { ImportB } ELSE IF f = FileB THEN { ImportA } ELSE { } ] }

\* the code point os.fsdecode gives a byte of a file name that is not UTF-8
LoneSurrogate == "U+DCE9"

\* a source file whose name on disk is not valid UTF-8
FileUndecodable == << "s", "r", "c", "/", "c", "a", "f", LoneSurrogate >> \o ExtTs

RepoComplexities ==
    { << << >>, << >> >>,
      << << >>, << ComplexityRecord(FileA, 20) >> >>,
      << << >>, << ComplexityRecord(FileA, 20), ComplexityRecord(FileUndecodable, 2) >> >> }


(***************************************************************************)
(* The snapshot run as a state machine: main, generate_snapshot and the    *)
(* git calls of analyze_repository, each of which may fail.                *)
(***************************************************************************)
\* main without the ".git" test: it enters the try block at once
MainNoGitCheck ==
    /\ s_pc = "main"
    /\ s_pc' = "git_info"
    /\ UNCHANGED << dot_git, git_installed, repo_commits, repo_texts, repo_complexity,
                    log_outcome, git_info, an_file_stats, an_coupling, git_data,
                    complexity_result, debt_data, dependency_data, priority_result,
                    exception, snapshot_file, exit_code, error_report >>
    /\ UNCHANGED otherThanSnapshot

\* main up to the try block: "if not (repo_root / '.git').exists(): return 1"
Main ==
    /\ s_pc = "main"
    /\ IF dot_git
       THEN s_pc' = "git_info" /\ UNCHANGED << exit_code, error_report >>
       ELSE /\ error_report' = "is not a git repository"
            /\ exit_code' = 1
            /\ s_pc' = "returned"
    /\ UNCHANGED << dot_git, git_installed, repo_commits, repo_texts, repo_complexity,
                    log_outcome, git_info, an_file_stats, an_coupling, git_data,
                    complexity_result, debt_data, dependency_data, priority_result,
                    exception, snapshot_file >>
    /\ UNCHANGED otherThanSnapshot

\* "git_info = get_git_info(repo_root)": every failure is caught
GetGitInfo(outcome) ==
    /\ s_pc = "git_info"
    /\ git_info' = GitInfo(outcome)
    /\ s_pc' = "git_log"
    /\ UNCHANGED << dot_git, git_installed, repo_commits, repo_texts, repo_complexity,
                    log_outcome, an_file_stats, an_coupling, git_data,
                    complexity_result, debt_data, dependency_data, priority_result,
                    exception, snapshot_file, exit_code >>
    /\ UNCHANGED otherThanSnapshot
    /\ UNCHANGED error_report

\* analyze_git_log: the "git log --numstat" call inside "try ... except
\* subprocess.CalledProcessError: return {}"
RunGitLog(outcome) ==
    /\ s_pc = "git_log"
    /\ log_outcome' = outcome
    /\ IF outcome = "ok"
       THEN s_pc' = "ls_files" /\ UNCHANGED << an_file_stats, exception >>
       ELSE IF outcome = "CalledProcessError"
       THEN s_pc' = "coupling_log" /\ an_file_stats' = << >> /\ UNCHANGED exception
       ELSE s_pc' = "except" /\ exception' = outcome /\ UNCHANGED an_file_stats
    /\ UNCHANGED << dot_git, git_installed, repo_commits, repo_texts, repo_complexity,
                    git_info, an_coupling, git_data, complexity_result, debt_data,
                    dependency_data, priority_result, snapshot_file, exit_code >>
    /\ UNCHANGED otherThanSnapshot
    /\ UNCHANGED error_report

\* analyze_git_log: "tracked_files = get_tracked_files(repo_root)", outside the
\* try block, then the parse loop and "return dict(file_stats)"
LsFilesForLog(outcome) ==
    /\ s_pc = "ls_files"
    /\ IF outcome = "ok"
       THEN /\ s_pc' = "coupling_log"
            /\ an_file_stats' = ParseGitLog(NumstatLog(repo_commits, 1), 1, TrackedFiles,
                                            None, << >>, << >>)
            /\ UNCHANGED exception
       ELSE s_pc' = "except" /\ exception' = outcome /\ UNCHANGED an_file_stats
    /\ UNCHANGED << dot_git, git_installed, repo_commits, repo_texts, repo_complexity,
                    log_outcome, git_info, an_coupling, git_data, complexity_result,
                    debt_data, dependency_data, priority_result, snapshot_file,
                    exit_code >>
    /\ UNCHANGED otherThanSnapshot
    /\ UNCHANGED error_report

\* analyze_temporal_coupling: the "git log --name-only" call inside "try ...
\* except subprocess.CalledProcessError: return []"
RunCouplingLog(outcome) ==
    /\ s_pc = "coupling_log"
    /\ IF outcome = "ok"
       THEN s_pc' = "coupling_ls_files" /\ UNCHANGED << an_coupling, exception >>
       ELSE IF outcome = "CalledProcessError"
       THEN s_pc' = "metrics" /\ an_coupling' = << >> /\ UNCHANGED exception
       ELSE s_pc' = "except" /\ exception' = outcome /\ UNCHANGED an_coupling
    /\ UNCHANGED << dot_git, git_installed, repo_commits, repo_texts, repo_complexity,
                    log_outcome, git_info, an_file_stats, git_data, complexity_result,
                    debt_data, dependency_data, priority_result, snapshot_file,
                    exit_code >>
    /\ UNCHANGED otherThanSnapshot
    /\ UNCHANGED error_report

\* analyze_temporal_coupling: get_tracked_files, the parse loop and the pairs
LsFilesForCoupling(outcome) ==
    /\ s_pc = "coupling_ls_files"
    /\ IF outcome = "ok"
       THEN /\ s_pc' = "metrics"
            /\ an_coupling' = ParseNameOnlyLog(NameOnlyLog(repo_commits, 1), 1,
                                               TrackedFiles, None, << >>, << >>)
            /\ UNCHANGED exception
       ELSE s_pc' = "except" /\ exception' = outcome /\ UNCHANGED an_coupling
    /\ UNCHANGED << dot_git, git_installed, repo_commits, repo_texts, repo_complexity,
                    log_outcome, git_info, an_file_stats, git_data, complexity_result,
                    debt_data, dependency_data, priority_result, snapshot_file,
                    exit_code >>
    /\ UNCHANGED otherThanSnapshot
    /\ UNCHANGED error_report

\* analyze_repository: calculate_bus_factor, get_hotspots and the returned dict
AssembleGitData ==
    /\ s_pc = "metrics"
    /\ git_data' = GitData(an_file_stats, an_coupling)
    /\ s_pc' = "complexity"
    /\ UNCHANGED << dot_git, git_installed, repo_commits, repo_texts, repo_complexity,
                    log_outcome, git_info, an_file_stats, an_coupling,
                    complexity_result, debt_data, dependency_data, priority_result,
                    exception, snapshot_file, exit_code >>
    /\ UNCHANGED otherThanSnapshot
    /\ UNCHANGED error_report


\* "complexity_data = analyze_complexity(repo_root)": reads the files on disk
AnalyzeComplexity ==
    /\ s_pc = "complexity"
    /\ complexity_result' = repo_complexity
    /\ s_pc' = "debt"
    /\ UNCHANGED << dot_git, git_installed, repo_commits, repo_texts, repo_complexity,
                    log_outcome, git_info, an_file_stats, an_coupling, git_data,
                    debt_data, dependency_data, priority_result, exception,
                    snapshot_file, exit_code >>
    /\ UNCHANGED otherThanSnapshot
    /\ UNCHANGED error_report

\* "debt_data = analyze_debt(repo_root)": reads the files on disk
AnalyzeDebt ==
    /\ s_pc = "debt"
    /\ debt_data' = [ debt_markers |-> << >>, large_files |-> << >>,
                      long_functions |-> << >> ]
    /\ s_pc' = "dependencies"
    /\ UNCHANGED << dot_git, git_installed, repo_commits, repo_texts, repo_complexity,
                    log_outcome, git_info, an_file_stats, an_coupling, git_data,
                    complexity_result, dependency_data, priority_result, exception,
                    snapshot_file, exit_code >>
    /\ UNCHANGED otherThanSnapshot
    /\ UNCHANGED error_report

\* "dependency_data = analyze_dependencies(repo_root)"
AnalyzeDependenciesStep ==
    /\ s_pc = "dependencies"
    /\ dependency_data' = AnalyzeDependencies(RepoFiles, repo_texts, RepoRoot, GitIgnored)
    /\ s_pc' = "priority"
    /\ UNCHANGED << dot_git, git_installed, repo_commits, repo_texts, repo_complexity,
                    log_outcome, git_info, an_file_stats, an_coupling, git_data,
                    complexity_result, debt_data, priority_result, exception,
                    snapshot_file, exit_code >>
    /\ UNCHANGED otherThanSnapshot
    /\ UNCHANGED error_report

\* "priority_hotspots = compute_priority_hotspots(git_data, complexity_data)"
ComputePriority ==
    /\ s_pc = "priority"
    /\ priority_result' = ComputePriorityHotspots(git_data.hotspots, complexity_result)
    /\ s_pc' = "assemble"
    /\ UNCHANGED << dot_git, git_installed, repo_commits, repo_texts, repo_complexity,
                    log_outcome, git_info, an_file_stats, an_coupling, git_data,
                    complexity_result, debt_data, dependency_data, exception,
                    snapshot_file, exit_code >>
    /\ UNCHANGED otherThanSnapshot
    /\ UNCHANGED error_report

\* the text file opened with encoding="utf-8" cannot encode the string
Unencodable(str) == \E i \in 1..Len(str) : str[i] = LoneSurrogate

\* the paths of the complexity section cannot all be encoded
ComplexityUnencodable(by_language) ==
    \E l \in 1..Len(by_language) :
        \E i \in 1..Len(by_language[l]) : Unencodable(by_language[l][i].path)

\* json.dump(snapshot, f) streams the sections in the order of the dict and
\* raises UnicodeEncodeError at the first string it cannot encode; what it
\* wrote before stays in the file, which open(output_path, "w") has truncated
JsonDump(snapshot) ==
    IF ComplexityUnencodable(snapshot.complexity)
    THEN [ file |-> [ metadata |-> snapshot.metadata,
                      summary |-> snapshot.summary,
                      priority_hotspots |-> snapshot.priority_hotspots,
                      git_analysis |-> snapshot.git_analysis ],
           raised |-> "UnicodeEncodeError" ]
    ELSE [ file |-> snapshot, raised |-> NotRun ]

\* compute_summary_metrics, the snapshot dict and json.dump to output_path
WriteSnapshot ==
    /\ s_pc = "assemble"
    /\ LET snapshot ==
              [ metadata |-> [ git |-> git_info ],
                summary |-> ComputeSummaryMetrics(git_data, dependency_data),
                priority_hotspots |-> priority_result,
                git_analysis |-> git_data,
                complexity |-> complexity_result,
                debt_indicators |-> debt_data,
                dependencies |-> dependency_data ]
           dumped == JsonDump(snapshot)
       IN  /\ snapshot_file' = dumped.file
           /\ IF dumped.raised = NotRun
              THEN s_pc' = "written" /\ UNCHANGED exception
              ELSE s_pc' = "except" /\ exception' = dumped.raised
    /\ UNCHANGED << dot_git, git_installed, repo_commits, repo_texts, repo_complexity,
                    log_outcome, git_info, an_file_stats, an_coupling, git_data,
                    complexity_result, debt_data, dependency_data, priority_result,
                    exit_code >>
    /\ UNCHANGED otherThanSnapshot
    /\ UNCHANGED error_report

\* main: generate_snapshot returned, "return 0"
MainReturn ==
    /\ s_pc = "written"
    /\ exit_code' = 0
    /\ s_pc' = "returned"
    /\ UNCHANGED << dot_git, git_installed, repo_commits, repo_texts, repo_complexity,
                    log_outcome, git_info, an_file_stats, an_coupling, git_data,
                    complexity_result, debt_data, dependency_data, priority_result,
                    exception, snapshot_file >>
    /\ UNCHANGED otherThanSnapshot
    /\ UNCHANGED error_report

\* main: "except Exception as e: ... return 1"
MainExcept ==
    /\ s_pc = "except"
    /\ error_report' = "Error generating snapshot"
    /\ exit_code' = 1
    /\ s_pc' = "returned"
    /\ UNCHANGED << dot_git, git_installed, repo_commits, repo_texts, repo_complexity,
                    log_outcome, git_info, an_file_stats, an_coupling, git_data,
                    complexity_result, debt_data, dependency_data, priority_result,
                    exception, snapshot_file >>
    /\ UNCHANGED otherThanSnapshot

Init ==
    /\ GraphIdle /\ LogIdle /\ ExclusionIdle /\ FilesIdle /\ HookIdle /\ CouplingIdle /\ PriorityIdle
    /\ s_pc = "main"
    /\ dot_git \in BOOLEAN
    /\ git_installed \in BOOLEAN
    /\ repo_commits \in RepoHistories
    /\ repo_texts \in RepoTexts
    /\ repo_complexity \in RepoComplexities
    /\ log_outcome = NotRun
    /\ git_info = NotRun
    /\ an_file_stats = NotRun
    /\ an_coupling = NotRun
    /\ git_data = NotRun
    /\ complexity_result = NotRun
    /\ debt_data = NotRun
    /\ dependency_data = NotRun
    /\ priority_result = NotRun
    /\ exception = NotRun
    /\ snapshot_file = NoFile
    /\ exit_code = NotRun
    /\ error_report = NotRun

Next ==
    \/ Main
    \/ \E outcome \in GitOutcomes : GetGitInfo(outcome)
    \/ \E outcome \in GitOutcomes : RunGitLog(outcome)
    \/ \E outcome \in GitOutcomes : LsFilesForLog(outcome)
    \/ \E outcome \in GitOutcomes : RunCouplingLog(outcome)
    \/ \E outcome \in GitOutcomes : LsFilesForCoupling(outcome)
    \/ AssembleGitData
    \/ AnalyzeComplexity
    \/ AnalyzeDebt
    \/ AnalyzeDependenciesStep
    \/ ComputePriority
    \/ WriteSnapshot
    \/ MainReturn
    \/ MainExcept

Spec == Init /\ [][Next]_vars

(***************************************************************************)
(* Claims about the snapshot run (checked under Spec).                     *)
(***************************************************************************)
\* C1: when the log retrieval of the history analysis times out or the git
\* tool is missing, generate_snapshot still completes: the run is not aborted,
\* the hotspot, priority-hotspot and bus-factor outputs are empty and the
\* dependency output is fully populated.
C1_LogFailureIsolated ==
    ( /\ s_pc = "returned"
      /\ dot_git
      /\ log_outcome \in { "TimeoutExpired", "FileNotFoundError" } ) =>
        /\ exit_code = 0
        /\ snapshot_file.git_analysis.hotspots = << >>
        /\ snapshot_file.priority_hotspots = << >>
        /\ snapshot_file.git_analysis.bus_factor.knowledge_silos = << >>
        /\ snapshot_file.git_analysis.bus_factor.total_authors = 0
        /\ snapshot_file.dependencies
              = AnalyzeDependencies(RepoFiles, repo_texts, RepoRoot, GitIgnored)


\* C13: when the repository root has no .git entry, main reports the error and
\* returns a non-zero exit code without running any analysis and without
\* creating or modifying the output artifact.
C13_NotARepository ==
    (s_pc = "returned" /\ ~dot_git) =>
        /\ exit_code # 0
        /\ error_report = "is not a git repository"
        /\ log_outcome = NotRun
        /\ exception = NotRun
        /\ git_info = NotRun
        /\ an_file_stats = NotRun
        /\ an_coupling = NotRun
        /\ git_data = NotRun
        /\ complexity_result = NotRun
        /\ debt_data = NotRun
        /\ dependency_data = NotRun
        /\ priority_result = NotRun
        /\ snapshot_file = NoFile

\* main returned on a root without .git whose history and sources are not empty
C13_Witness ==
    /\ s_pc = "returned"
    /\ ~dot_git
    /\ exit_code = 1
    /\ Len(repo_commits) > 1
    /\ repo_texts[FileA] # { }

\* C28: the snapshot artifact is written only after every analysis step has
\* completed: if any step of generate_snapshot raises, main returns exit code
\* 1 and the output file is neither created nor modified; if all steps
\* succeed, the file is written once and main returns 0.
C28_WrittenOnlyOnSuccess ==
    /\ snapshot_file # NoFile => s_pc \in { "written", "except", "returned" }
    /\ (s_pc = "returned" /\ dot_git) =>
          IF exception # NotRun
          THEN exit_code = 1 /\ snapshot_file = NoFile
          ELSE exit_code = 0 /\ snapshot_file # NoFile


(***************************************************************************)
(* The history miner on a log with malformed lines: a header whose         *)
(* timestamp does not parse, a stat line whose added field is no number.   *)
(***************************************************************************)
\* a "%aI" field datetime.fromisoformat rejects
BadDate == "yesterday"

\* an added field int() rejects
NonNumeric == << "1", "x" >>

\* the log prints a stat line with a non-numeric added field for the path
LogMalformedStat(filepath) ==
    /\ l_pc = "parse"
    /\ LogLines(git_log) < MaxLogLines
    /\ git_log # << >>
    /\ LET n == Len(git_log)
           entries == git_log[n].entries
       IN  /\ IF entries = << >> THEN TRUE
              ELSE StrLess(entries[Len(entries)].path, filepath)
           /\ git_log' = [ git_log EXCEPT ![n].entries =
                             Append(@, [ added |-> NonNumeric, removed |-> << "0" >>,
                                         path |-> filepath ]) ]
           /\ ParseLogLine(StatLine(NonNumeric, << "0" >>, filepath))
    /\ UNCHANGED l_pc
    /\ UNCHANGED otherThanLog

NextMalformed ==
    \/ \E date \in IsoDates : LogHeader(date, AuthorAnn)
    \/ LogHeader(BadDate, AuthorBob)
    \/ \E filepath \in { FileA, FileB } : LogStat(filepath)
    \/ \E filepath \in { FileA, FileB } : LogMalformedStat(filepath)
    \/ LogEnd

SpecMalformed == InitLog /\ [][NextMalformed]_vars

\* the lines of a log held as commits
RECURSIVE LinesOf(_, _)
LinesOf(log, n) ==
    IF n > Len(log) THEN << >>
    ELSE << HeaderLine(log[n].hash, log[n].date, log[n].author) >>
            \o [ k \in 1..Len(log[n].entries) |->
                   StatLine(log[n].entries[k].added, log[n].entries[k].removed,
                            log[n].entries[k].path) ]
            \o LinesOf(log, n + 1)

MalformedHeader(commit) == FromIsoFormat(commit.date) = ValueError

MalformedEntry(entry) ==
    /\ entry.added # Minus
    /\ entry.removed # Minus
    /\ (IntOf(entry.added) = ValueError \/ IntOf(entry.removed) = ValueError)

\* the log without its malformed lines: a commit whose header is malformed goes
\* with its stat lines, a malformed stat line goes alone
RECURSIVE WithoutMalformed(_)
WithoutMalformed(log) ==
    IF log = << >> THEN << >>
    ELSE (IF MalformedHeader(log[1]) THEN << >>
          ELSE << [ log[1] EXCEPT !.entries = SelectSeq(@, LAMBDA e : ~MalformedEntry(e)) ] >>)
         \o WithoutMalformed(Tail(log))

\* C14: a malformed log line (a header with an unparseable timestamp, a stat
\* line with a non-numeric field) is skipped without aborting the parse: the
\* aggregates are those of the log without the malformed lines.
C14_MalformedSkipped ==
    { file_stats[f] : f \in DOMAIN file_stats }
        = Range(ParseGitLog(LinesOf(WithoutMalformed(git_log), 1), 1, TrackedFiles,
                            None, << >>, << >>))

\* the parse returned on a log that holds a well-formed commit, then a commit
\* with a malformed header and a stat line, and a malformed stat line
C14_Witness ==
    /\ l_pc = "done"
    /\ FileA \in DOMAIN file_stats
    /\ \E n \in 2..Len(git_log) :
          /\ MalformedHeader(git_log[n])
          /\ ~MalformedHeader(git_log[n - 1])
          /\ \E k \in 1..Len(git_log[n].entries) : ~MalformedEntry(git_log[n].entries[k])
    /\ \E n \in 1..Len(git_log) :
          /\ ~MalformedHeader(git_log[n])
          /\ \E k \in 1..Len(git_log[n].entries) : MalformedEntry(git_log[n].entries[k])

(***************************************************************************)
(* The lists of the snapshot on a repository larger than every limit:      *)
(* generated modules in two layer directories, each importing the next     *)
(* GenFanOut modules of the ring, a history whose commits each name the    *)
(* same GenCoupled files, and more files with history than are listed.     *)
(***************************************************************************)
DirCommon == << "c", "o", "m", "m", "o", "n" >>
DirViews == << "V", "i", "e", "w", "s" >>

\* the directory of the i-th of n generated modules: the lower half is "common"
GenDir(i, n) == IF 2 * i <= n THEN DirCommon ELSE DirViews

GenName(i) == << Digits[(i \div 10) + 1], Digits[(i % 10) + 1] >>

\* the repo-relative path of the i-th generated module
GenModule(i, n) == GenDir(i, n) \o << "/" >> \o GenName(i) \o ExtTs

\* the specifier by which any generated module names the j-th
GenImport(j, n) == << ".", ".", "/" >> \o GenDir(j, n) \o << "/" >> \o GenName(j)

\* the import statements of the generated modules
GenTexts(n) ==
    LET index(f) == CHOOSE i \in 1..n : GenModule(i, n) = f
    IN  [ f \in { GenModule(i, n) : i \in 1..n } |->
            { GenImport(((index(f) + k - 1) % n) + 1, n) :
                k \in 1..MinInt(GenFanOut, n - 1) } ]

\* build_dependency_graph on the files on disk, all of them source files with text
BuildGraphOnDisk ==
    /\ g_pc = "edit"
    /\ modules' = BuildDependencyGraph(DOMAIN texts, texts, RepoRoot, GitIgnored)
    /\ roots' = DOMAIN modules'
    /\ g_pc' = "dfs"
    /\ UNCHANGED << texts, stack, visited, rec_stack, cycles >>
    /\ UNCHANGED otherThanGraph

\* the keys of the modules dict, listed in ascending order of path
ModuleOrder(mods) == SortedList(DOMAIN mods)

\* "threshold: int = 10" of find_highly_coupled_modules and find_hub_modules
CouplingThreshold == 10

\* find_highly_coupled_modules with "fan_out >= threshold"
FindHighlyCoupledModulesAtLeast(mods) ==
    LET over == SelectSeq(ModuleOrder(mods),
                          LAMBDA f : FanOut(mods[f]) >= CouplingThreshold)
        highly_coupled == [ i \in 1..Len(over) |->
                              [ path |-> over[i],
                                fan_out |-> FanOut(mods[over[i]]),
                                imports |-> SortedList(mods[over[i]].imports) ] ]
    IN  SortDesc(highly_coupled, [ i \in 1..Len(highly_coupled) |->
                                     << << highly_coupled[i].fan_out, 1 >> >> ])

\* find_highly_coupled_modules(modules)
FindHighlyCoupledModules(mods) ==
    LET over == SelectSeq(ModuleOrder(mods),
                          LAMBDA f : FanOut(mods[f]) > CouplingThreshold)
        highly_coupled == [ i \in 1..Len(over) |->
                              [ path |-> over[i],
                                fan_out |-> FanOut(mods[over[i]]),
                                imports |-> SortedList(mods[over[i]].imports) ] ]
    IN  SortDesc(highly_coupled, [ i \in 1..Len(highly_coupled) |->
                                     << << highly_coupled[i].fan_out, 1 >> >> ])

\* find_hub_modules(modules)
FindHubModules(mods) ==
    LET over == SelectSeq(ModuleOrder(mods),
                          LAMBDA f : FanIn(mods[f]) > CouplingThreshold)
        hubs == [ i \in 1..Len(over) |->
                    [ path |-> over[i],
                      fan_in |-> FanIn(mods[over[i]]),
                      imported_by |-> SortedList(mods[over[i]].imported_by) ] ]
    IN  SortDesc(hubs, [ i \in 1..Len(hubs) |-> << << hubs[i].fan_in, 1 >> >> ])

\* layer_order of compute_layer_violations
LayerOrder ==
    << DirCommon, << "u", "t", "i", "l", "s" >>, << "a", "p", "i" >>,
       << "m", "o", "d", "e", "l", "s" >>,
       << "s", "e", "r", "v", "i", "c", "e", "s" >>,
       << "f", "e", "a", "t", "u", "r", "e", "s" >>, << "v", "i", "e", "w", "s" >>,
       << "m", "a", "n", "a", "g", "e", "r", "s" >> >>

LayerUnknown == << "u", "n", "k", "n", "o", "w", "n" >>

\* get_layer(path), counted from 1: the first layer named by a part of the
\* lower-cased path, one past the last layer when none is
GetLayer(path) ==
    LET parts == Range(Split(Lower(path), "/"))
        named == { i \in 1..Len(LayerOrder) : LayerOrder[i] \in parts }
    IN  IF named = { } THEN Len(LayerOrder) + 1
        ELSE CHOOSE i \in named : \A j \in named : i <= j

LayerName(layer) == IF layer <= Len(LayerOrder) THEN LayerOrder[layer] ELSE LayerUnknown

\* ViolationsOf with "module_layer <= imported_layer"
ViolationsOfNotStrict(mods, module_path) ==
    LET upward == SelectSeq(SortedList(mods[module_path].imports),
                            LAMBDA imported_path :
                                GetLayer(module_path) <= GetLayer(imported_path))
    IN  [ i \in 1..Len(upward) |->
            [ from |-> module_path,
              from_layer |-> LayerName(GetLayer(module_path)),
              imports |-> upward[i],
              imports_layer |-> LayerName(GetLayer(upward[i])) ] ]

\* the violations appended for one module, its imports taken in ascending order
ViolationsOf(mods, module_path) ==
    LET upward == SelectSeq(SortedList(mods[module_path].imports),
                            LAMBDA imported_path :
                                GetLayer(module_path) < GetLayer(imported_path))
    IN  [ i \in 1..Len(upward) |->
            [ from |-> module_path,
              from_layer |-> LayerName(GetLayer(module_path)),
              imports |-> upward[i],
              imports_layer |-> LayerName(GetLayer(upward[i])) ] ]

\* compute_layer_violations(modules)
ComputeLayerViolations(mods) ==
    Flatten([ i \in 1..Len(ModuleOrder(mods)) |->
                ViolationsOf(mods, ModuleOrder(mods)[i]) ])

\* ModuleInfo.to_dict; the instability in thousandths
ModuleToDict(m) ==
    LET inst == Instability(m)
    IN  [ path |-> m.path, fan_out |-> FanOut(m), fan_in |-> FanIn(m),
          instability |-> << Round3(inst[1], inst[2]), Thousand >>,
          imports |-> SortedList(m.imports),
          imported_by |-> SortedList(m.imported_by) ]

\* the slices of analyze_dependencies
TopCycles == 20
TopHighlyCoupled == 20
TopHubs == 20
TopLayerViolations == 30
TopModules == 30

\* "module_details = sorted(..., key=(instability, fan_out), reverse=True)[:30]"
ModuleDetails(mods) ==
    LET dicts == [ i \in 1..Len(ModuleOrder(mods)) |->
                     ModuleToDict(mods[ModuleOrder(mods)[i]]) ]
    IN  Take(SortDesc(dicts, [ i \in 1..Len(dicts) |->
                                 << dicts[i].instability, << dicts[i].fan_out, 1 >> >> ]),
             TopModules)

\* the lists of the dict analyze_dependencies returns
DependencyLists(mods, circular_deps) ==
    [ circular_dependencies |-> Take(circular_deps, TopCycles),
      highly_coupled_modules |-> Take(FindHighlyCoupledModules(mods), TopHighlyCoupled),
      hub_modules |-> Take(FindHubModules(mods), TopHubs),
      layer_violations |-> Take(ComputeLayerViolations(mods), TopLayerViolations),
      top_modules_by_instability |-> ModuleDetails(mods) ]

\* analyze_dependencies after find_circular_dependencies has returned
ReportDependencies ==
    /\ g_pc = "done"
    /\ g_pc' = "reported"
    /\ dependency_data' = DependencyLists(modules, cycles)
    /\ UNCHANGED << texts, modules, roots, stack, visited, rec_stack, cycles >>
    /\ UNCHANGED << lvars, tvars, pvars, evars, fvars, hvars >>
    /\ UNCHANGED << s_pc, dot_git, git_installed, repo_commits, repo_texts,
                    repo_complexity, log_outcome, git_info, an_file_stats, an_coupling,
                    git_data, complexity_result, debt_data, priority_result, exception,
                    snapshot_file, exit_code, error_report >>

\* the parse loop of analyze_temporal_coupling has read commits that each name
\* the first m generated files
CoupledHistory(commits, m) ==
    /\ tc_pc = "parse"
    /\ tc_commits = commits
    /\ current_commit = Sha(commits)
    /\ commit_files = [ k \in 1..commits |->
                          [ commit |-> Sha(k), files |-> { GenFile(i) : i \in 1..m } ] ]
    /\ file_change_count = [ f \in { GenFile(i) : i \in 1..m } |-> commits ]
    /\ couplings = << >>

\* the numbers of modules and of co-changed files tried
ModuleCounts == { 3, MaxModules }
CoupledCounts == { 2, GenCoupled }

InitBounds ==
    /\ LogIdle /\ ExclusionIdle /\ FilesIdle /\ HookIdle /\ SnapshotIdle
    /\ \E n \in ModuleCounts : texts = GenTexts(n)
    /\ g_pc = "edit"
    /\ modules = << >> /\ roots = { } /\ stack = << >>
    /\ visited = { } /\ rec_stack = { } /\ cycles = << >>
    /\ \E m \in CoupledCounts : CoupledHistory(MinCoupling, m)
    /\ p_pc = "bus_factor"
    /\ \E n \in { 1, MaxGenerated } :
          hs_file_stats = Generated(n) \o << [ NewFileStats(FileA) EXCEPT
                                                 !.change_count = 5,
                                                 !.authors = { AuthorAnn } ],
                                             [ NewFileStats(FileB) EXCEPT
                                                 !.change_count = 10,
                                                 !.authors = { AuthorAnn, AuthorBob } ] >>
    /\ complexity_data = << << >>, << ComplexityRecord(FileA, 20) >> >>
    /\ bus_factor = << >>
    /\ hotspots = << >>
    /\ priority_hotspots = << >>

\* generate_snapshot's order: the git analysis, the dependency analysis (its
\* dicts and sets iterated in ascending order), then the priority hotspots
NextBounds ==
    \/ CouplingFinish
    \/ tc_pc = "done" /\ PhBusFactor
    \/ PhGetHotspots
    \/ p_pc = "priority" /\ BuildGraphOnDisk
    \/ \E m \in roots : m = MinStr(roots) /\ DfsRoot(m)
    \/ /\ stack # << >>
       /\ \E imported \in stack[Len(stack)].todo :
             imported = MinStr(stack[Len(stack)].todo) /\ DfsVisit(imported)
    \/ DfsReturn
    \/ DfsDone
    \/ ReportDependencies
    \/ g_pc = "reported" /\ PhComputePriority

SpecBounds == InitBounds /\ [][NextBounds]_vars

\* C16: every emitted list is bounded by a fixed constant, whatever the size
\* of the repository: at most 20 priority hotspots, 30 change hotspots, 20
\* knowledge silos, 50 coupling edges, 20 cycles, 20 highly-coupled modules,
\* 20 hub modules, 30 layer violations and 30 module details.
C16_ListsBounded ==
    /\ Len(priority_hotspots) <= 20
    /\ Len(hotspots) <= 30
    /\ p_pc # "bus_factor" => Len(bus_factor.knowledge_silos) <= 20
    /\ Len(couplings) <= 50
    /\ g_pc = "reported" =>
          /\ Len(dependency_data.circular_dependencies) <= 20
          /\ Len(dependency_data.highly_coupled_modules) <= 20
          /\ Len(dependency_data.hub_modules) <= 20
          /\ Len(dependency_data.layer_violations) <= 30
          /\ Len(dependency_data.top_modules_by_instability) <= 30

\* the repository has more of everything than is listed, and every list is full
C16_Witness ==
    /\ p_pc = "done"
    /\ Len(hs_file_stats) > 30
    /\ Len(priority_hotspots) = 20
    /\ Len(hotspots) = 30
    /\ Len(bus_factor.knowledge_silos) = 20
    /\ Cardinality(DOMAIN file_change_count) > 10
    /\ Len(couplings) = 50
    /\ g_pc = "reported"
    /\ Len(cycles) > 20
    /\ Cardinality(DOMAIN modules) > 30
    /\ Len(dependency_data.circular_dependencies) = 20
    /\ Len(dependency_data.highly_coupled_modules) = 20
    /\ Len(dependency_data.hub_modules) = 20
    /\ Len(dependency_data.layer_violations) = 30
    /\ Len(dependency_data.top_modules_by_instability) = 30

(***************************************************************************)
(* The exclusion predicates of the history miner and of the dependency     *)
(* analysis, applied to the same repo-relative path.                       *)
(***************************************************************************)
\* directory names and file names the paths are built from
ExclusionDirs ==
    { << "s", "r", "c" >>, << "t", "e", "s", "t" >>, << "t", "e", "s", "t", "s" >>,
      << "m", "o", "c", "k", "s" >>, << "o", "u", "t" >>, << "d", "i", "s", "t" >> }

ExclusionNames ==
    { << "a", ".", "t", "s" >>, << "a", ".", "t", "e", "s", "t", ".", "t", "s" >>,
      << "a", ".", "s", "p", "e", "c", ".", "t", "s" >>,
      << "t", "e", "s", "t", "_", "a", ".", "t", "s" >> }

\* source files at the root, in a directory, or in a directory of a directory
ExclusionPaths ==
    { AsPosix(<< name >>) : name \in ExclusionNames }
        \cup { AsPosix(<< d, name >>) : d \in ExclusionDirs, name \in ExclusionNames }
        \cup { AsPosix(<< d, e, name >>) :
                  d \in ExclusionDirs, e \in ExclusionDirs, name \in ExclusionNames }

\* both predicates are asked about the path; no .gitignore is in force
ClassifyFile ==
    /\ e_pc = "path"
    /\ e_pc' = "done"
    /\ history_excludes' = ShouldSkipFile(e_path)
    /\ structure_excludes' = ~ShouldAnalyzeFile(e_path, RepoRoot, { })
    /\ UNCHANGED e_path
    /\ UNCHANGED otherThanExclusion

InitExclusion ==
    /\ GraphIdle /\ LogIdle /\ CouplingIdle /\ PriorityIdle /\ SnapshotIdle
    /\ FilesIdle /\ HookIdle
    /\ e_pc = "path"
    /\ e_path \in ExclusionPaths
    /\ history_excludes = FALSE
    /\ structure_excludes = FALSE

NextExclusion == ClassifyFile

SpecExclusion == InitExclusion /\ [][NextExclusion]_vars

\* C19: the history exclusion predicate (_should_skip_file) and the structural
\* exclusion (the directory and test rules of should_analyze_file) are the
\* same policy: for every repo-relative source path, one excludes it exactly
\* when the other does.
C19_SamePolicy == e_pc = "done" => (history_excludes <=> structure_excludes)


(***************************************************************************)
(* compute_layer_violations on a repository whose directories name layers  *)
(* in several ways (checked under SpecLayers).                             *)
(***************************************************************************)
\* a module of the lowest layer, one in a capitalised layer directory, one in
\* no layer, and one whose path names the layer "views" before "common"
LayerFileCommon == DirCommon \o << "/", "a" >> \o ExtTs
LayerFileViews == DirViews \o << "/", "b" >> \o ExtTs
LayerFileLib == << "l", "i", "b", "/", "c" >> \o ExtTs
LayerFileNested == Lower(DirViews) \o << "/" >> \o DirCommon \o << "/", "d" >> \o ExtTs

LayerFiles == { LayerFileCommon, LayerFileViews, LayerFileLib, LayerFileNested }

\* the specifier by which the file at the given depth names another file
LayerImport(from, to) ==
    (IF from = LayerFileNested THEN << ".", ".", "/", ".", ".", "/" >>
     ELSE << ".", ".", "/" >>) \o SubSeq(to, 1, Len(to) - Len(ExtTs))

InitLayers ==
    /\ LogIdle /\ ExclusionIdle /\ FilesIdle /\ HookIdle /\ CouplingIdle /\ PriorityIdle /\ SnapshotIdle
    /\ \E named \in [ LayerFiles -> SUBSET LayerFiles ] :
          /\ \A f \in LayerFiles : f \notin named[f]
          /\ texts = [ f \in LayerFiles |-> { LayerImport(f, to) : to \in named[f] } ]
    /\ g_pc = "edit"
    /\ modules = << >> /\ roots = { } /\ stack = << >>
    /\ visited = { } /\ rec_stack = { } /\ cycles = << >>

\* analyze_dependencies, its dicts and sets iterated in ascending order
NextLayers ==
    \/ BuildGraphOnDisk
    \/ \E m \in roots : m = MinStr(roots) /\ DfsRoot(m)
    \/ /\ stack # << >>
       /\ \E imported \in stack[Len(stack)].todo :
             imported = MinStr(stack[Len(stack)].todo) /\ DfsVisit(imported)
    \/ DfsReturn
    \/ DfsDone
    \/ ReportDependencies

SpecLayers == InitLayers /\ [][NextLayers]_vars

\* the index, counted from 1, of the first layer name that is one of the
\* segments; one past the last layer when no segment is a layer name
FirstLayerAmong(segments) ==
    IF \E i \in 1..Len(LayerOrder) : LayerOrder[i] \in segments
    THEN CHOOSE i \in 1..Len(LayerOrder) :
            /\ LayerOrder[i] \in segments
            /\ \A j \in 1..(i - 1) : LayerOrder[j] \notin segments
    ELSE Len(LayerOrder) + 1

\* the import edges the report flags
Flagged ==
    { << dependency_data.layer_violations[k].from,
         dependency_data.layer_violations[k].imports >> :
        k \in 1..Len(dependency_data.layer_violations) }

ImportEdges == { e \in (DOMAIN modules) \X LayerFiles : e[2] \in modules[e[1]].imports }

\* the edges that rise in the layers the segments name
Rising(segments(_)) ==
    { e \in ImportEdges : FirstLayerAmong(segments(e[1])) < FirstLayerAmong(segments(e[2])) }

PathSegments(path) == Range(Split(path, "/"))
LowerCasedSegments(path) == Range(Split(Lower(path), "/"))

\* C23 as stated: each path gets the index of the first layer name that equals
\* one of its path segments (one past the last layer when none does), an import
\* edge is flagged if and only if the importer's index is strictly lower than
\* the imported path's, and a module with no matching layer is never the
\* source of a violation.
C23_ExactSegments ==
    g_pc = "reported" =>
        /\ Flagged = Rising(PathSegments)
        /\ \A e \in Flagged : FirstLayerAmong(PathSegments(e[1])) <= Len(LayerOrder)

\* C23 amended: the layer names are matched against the segments of the
\* lower-cased path; an import edge is flagged if and only if the importer's
\* index is strictly lower than the imported path's, and a module with no
\* matching layer is never the source of a violation.
C23_LowerCasedSegments ==
    g_pc = "reported" =>
        /\ Flagged = Rising(LowerCasedSegments)
        /\ \A e \in Flagged :
              FirstLayerAmong(LowerCasedSegments(e[1])) <= Len(LayerOrder)

\* common/a.ts imports Views/b.ts, lib/c.ts and views/common/d.ts and all of
\* them import it: the two edges out of "common" into "Views" and into no
\* layer are flagged, the edge between the two "common" modules is not, and
\* no edge out of lib/c.ts is
C23_Witness ==
    /\ g_pc = "reported"
    /\ modules[LayerFileCommon].imports = LayerFiles \ { LayerFileCommon }
    /\ modules[LayerFileCommon].imported_by = LayerFiles \ { LayerFileCommon }
    /\ << LayerFileCommon, LayerFileViews >> \in Flagged
    /\ << LayerFileCommon, LayerFileLib >> \in Flagged
    /\ << LayerFileCommon, LayerFileNested >> \notin Flagged
    /\ << LayerFileNested, LayerFileViews >> \in ImportEdges
    /\ << LayerFileNested, LayerFileViews >> \in Flagged
    /\ \A e \in Flagged : e[1] # LayerFileLib


(***************************************************************************)
(* build_dependency_graph pass by pass, the source files taken in the      *)
(* order the directory walk yields them (checked under SpecDiscovery).     *)
(***************************************************************************)
\* "modules[rel_path] = ModuleInfo(path=rel_path, imports=imports)", from the
\* i-th discovered file on
RECURSIVE FirstPass(_, _, _, _, _)
FirstPass(source_files, txts, files, i, mods) ==
    IF i > Len(source_files) THEN mods
    ELSE LET rel_path == source_files[i]
             info == [ path |-> rel_path,
                       imports |-> ExtractImports(rel_path, txts[rel_path], files),
                       imported_by |-> { } ]
             added == [ f \in DOMAIN mods \cup { rel_path } |->
                          IF f = rel_path THEN info ELSE mods[f] ]
         IN  FirstPass(source_files, txts, files, i + 1, added)

\* "if imported_path in modules: modules[imported_path].imported_by.add(module_path)"
\* for every import of one module
AddImportedBy(mods, module_path) ==
    [ f \in DOMAIN mods |->
        IF f \in mods[module_path].imports
        THEN [ mods[f] EXCEPT !.imported_by = @ \cup { module_path } ]
        ELSE mods[f] ]

\* the second pass over modules.items(), from the i-th inserted key on
RECURSIVE SecondPass(_, _, _)
SecondPass(keys, i, mods) ==
    IF i > Len(keys) THEN mods
    ELSE SecondPass(keys, i + 1, AddImportedBy(mods, keys[i]))

\* a single pass that adds the reverse edges of a module when it is discovered
RECURSIVE BuildDependencyGraphOnePass(_, _, _, _, _)
BuildDependencyGraphOnePass(source_files, txts, files, i, mods) ==
    IF i > Len(source_files) THEN mods
    ELSE LET rel_path == source_files[i]
             info == [ path |-> rel_path,
                       imports |-> ExtractImports(rel_path, txts[rel_path], files),
                       imported_by |-> { } ]
             added == [ f \in DOMAIN mods \cup { rel_path } |->
                          IF f = rel_path THEN info ELSE mods[f] ]
         IN  BuildDependencyGraphOnePass(source_files, txts, files, i + 1,
                                         AddImportedBy(added, rel_path))

\* the two passes of build_dependency_graph over the discovered source files
BuildDependencyGraphInOrder(source_files, txts, files, i, mods) ==
    SecondPass(source_files, i, FirstPass(source_files, txts, files, i, mods))

\* the orders in which the walk may yield the files of a set
Orderings(S) ==
    { order \in [ 1..Cardinality(S) -> S ] :
        \A i, j \in 1..Cardinality(S) : order[i] = order[j] => i = j }

\* modules = build_dependency_graph(repo_root), the walk yielding some order
BuildGraphInOrder ==
    /\ g_pc = "edit"
    /\ \E source_files \in Orderings(SourceFilesOf(RepoFiles, RepoRoot, GitIgnored)) :
          modules' = BuildDependencyGraphInOrder(source_files, texts, RepoFiles, 1, << >>)
    /\ roots' = DOMAIN modules'
    /\ g_pc' = "dfs"
    /\ UNCHANGED << texts, stack, visited, rec_stack, cycles >>
    /\ UNCHANGED otherThanGraph

NextDiscovery ==
    \/ \E f \in SourceFiles, ip \in ImportSpecifiers : EditImport(f, ip)
    \/ BuildGraphInOrder

SpecDiscovery == InitGraph /\ [][NextDiscovery]_vars

\* C24: the reverse edges are the exact inverse of the forward edges between
\* nodes (A is in B.imported_by if and only if B is in A.imports), the graph
\* does not depend on the order in which the files are discovered (every order
\* yields the graph the ascending order yields), and every analysed file,
\* also one with no imports and no importers, is a node.
C24_ReverseEdgesExact ==
    g_pc = "dfs" =>
        /\ \A A, B \in DOMAIN modules :
              A \in modules[B].imported_by <=> B \in modules[A].imports
        /\ modules = BuildDependencyGraphInOrder(SortedList(SourceFiles), texts,
                                                 RepoFiles, 1, << >>)
        /\ \A f \in RepoFiles :
              ((\E ext \in SourceExtensions : EndsWith(f, ext))
                  /\ ShouldAnalyzeFile(f, RepoRoot, GitIgnored))
                 => f \in DOMAIN modules

\* a.ts imports b.ts and the unanalysed test/h.ts, b.ts imports a.ts, and c.ts
\* has no imports and no importers
C24_Witness ==
    /\ g_pc = "dfs"
    /\ modules[FileA].imports = { FileB, FileTestH }
    /\ modules[FileB].imports = { FileA }
    /\ modules[FileB].imported_by = { FileA }
    /\ modules[FileA].imported_by = { FileB }
    /\ FileC \in DOMAIN modules
    /\ modules[FileC].imports = { } /\ modules[FileC].imported_by = { }
    /\ FileTestH \notin DOMAIN modules


(***************************************************************************)
(* resolve_import_path over the files on disk (checked under SpecResolve). *)
(***************************************************************************)
\* the references src/a.ts makes: a plain name, a name with a dot in it, and
\* a name above the repository root
ImportDotted == << ".", "/", "b", ".", "c" >>
ImportAbove == << ".", ".", "/", ".", ".", "/", "b" >>

ResolveImports == { ImportB, ImportDotted, ImportAbove }

\* a path with its name extended, and a file inside it
Appended(path, ext) == path \o ext
Inside(path, name) == path \o << "/" >> \o name

\* the path a reference of src/a.ts names
Referenced(import_path) ==
    AsPosix(ResolveParts(SubSeq(Parts(FileA), 1, Len(Parts(FileA)) - 1),
                         Parts(import_path)))

\* the candidate forms of a referenced path as the claim lists them
FormsOf(path) ==
    << path, Appended(path, ExtTs), Appended(path, ExtTsx), Appended(path, ExtJs),
       Inside(path, IndexTs), Inside(path, IndexTsx), Inside(path, IndexJs) >>

\* the paths that may be files on disk: every form of every reference
DiskPaths == UNION { Range(FormsOf(Referenced(ip))) : ip \in ResolveImports }

\* a path is not a file and a directory at once
IsDirectoryIn(path, files) ==
    \E f \in files : Len(f) > Len(path) /\ SubSeq(f, 1, Len(path) + 1) = path \o << "/" >>

\* the disks tried: up to three files
DiskStates ==
    { files \in { { } } \cup { { a, b, c } : a, b, c \in DiskPaths } :
        \A f \in files : ~IsDirectoryIn(f, files) }

InitResolve ==
    /\ GraphIdle /\ LogIdle /\ ExclusionIdle /\ HookIdle /\ CouplingIdle /\ PriorityIdle
    /\ SnapshotIdle
    /\ f_pc = "disk"
    /\ f_root = RepoRoot
    /\ f_files \in DiskStates
    /\ f_import \in ResolveImports
    /\ f_result = NotRun

\* resolved = resolve_import_path(filepath, import_path, repo_root) for an
\* import statement of src/a.ts
Resolve ==
    /\ f_pc = "disk"
    /\ f_pc' = "done"
    /\ f_result' = ResolveImportPath(FileA, f_import, f_files)
    /\ UNCHANGED << f_root, f_files, f_import >>
    /\ UNCHANGED otherThanFiles

NextResolve == Resolve

SpecResolve == InitResolve /\ [][NextResolve]_vars

\* C25: resolve_import_path returns the first existing file in the fixed
\* order: the exact referenced path, that path with .ts, .tsx, .js appended,
\* then index.ts, index.tsx, index.js inside it; it returns nothing when none
\* of these exists or the match lies outside the repository root, and never a
\* file that is not one of these forms.
C25_FirstExistingForm ==
    f_pc = "done" =>
        LET forms == FormsOf(Referenced(f_import))
            existing == { i \in 1..Len(forms) : forms[i] \in f_files }
            first == CHOOSE i \in existing : \A j \in existing : i <= j
        IN  IF existing = { } THEN f_result = None
            ELSE IF OutsideRoot(Parts(forms[first])) THEN f_result = None
            ELSE f_result = forms[first]


(***************************************************************************)
(* find_highly_coupled_modules and find_hub_modules on modules whose fan   *)
(* counts lie around the threshold (checked under SpecFanCounts).          *)
(***************************************************************************)
\* thirteen modules: the first imports the x modules after it, the second
\* imports the y modules after it (and the first one when it looks back), c of
\* the others import the first two and the last one imports the second
FanModules == CouplingThreshold + 3
FanModule(i) == GenModule(i, FanModules)

FanTexts(x, y, c, back) ==
    [ f \in { FanModule(i) : i \in 1..FanModules } |->
        LET i == CHOOSE k \in 1..FanModules : FanModule(k) = f
            named == IF i = 1 THEN 2..(x + 1)
                     ELSE IF i = 2 THEN 3..(y + 2) \cup (IF back THEN { 1 } ELSE { })
                     ELSE IF i = FanModules THEN { 2 }
                     ELSE IF i <= c + 2 THEN { 1, 2 } ELSE { }
        IN  { GenImport(j, FanModules) : j \in named } ]

InitFanCounts ==
    /\ LogIdle /\ ExclusionIdle /\ FilesIdle /\ HookIdle /\ CouplingIdle /\ PriorityIdle
    /\ SnapshotIdle
    /\ \E x \in 10..12, y \in 9..11, c \in 8..10, back \in BOOLEAN :
          texts = FanTexts(x, y, c, back)
    /\ g_pc = "edit"
    /\ modules = << >> /\ roots = { } /\ stack = << >>
    /\ visited = { } /\ rec_stack = { } /\ cycles = << >>

SpecFanCounts == InitFanCounts /\ [][NextLayers]_vars

\* C26: find_highly_coupled_modules reports a module if and only if its
\* fan_out exceeds the threshold, find_hub_modules if and only if its fan_in
\* does; each report carries the complete list of the module's imports (of its
\* dependents), and each list of reports is ordered by the count, descending.
C26_OverThresholdReported ==
    g_pc = "reported" =>
        LET coupled == dependency_data.highly_coupled_modules
            hubs == dependency_data.hub_modules
        IN  /\ \A m \in DOMAIN modules :
                  /\ (\E k \in 1..Len(coupled) : coupled[k].path = m)
                        <=> Cardinality(modules[m].imports) > 10
                  /\ (\E k \in 1..Len(hubs) : hubs[k].path = m)
                        <=> Cardinality(modules[m].imported_by) > 10
            /\ \A k \in 1..Len(coupled) :
                  /\ Range(coupled[k].imports) = modules[coupled[k].path].imports
                  /\ Len(coupled[k].imports) = coupled[k].fan_out
                  /\ coupled[k].fan_out = Cardinality(modules[coupled[k].path].imports)
                  /\ k < Len(coupled) => coupled[k].fan_out >= coupled[k + 1].fan_out
                  /\ \A j \in 1..Len(coupled) : coupled[j].path = coupled[k].path => j = k
            /\ \A k \in 1..Len(hubs) :
                  /\ Range(hubs[k].imported_by) = modules[hubs[k].path].imported_by
                  /\ Len(hubs[k].imported_by) = hubs[k].fan_in
                  /\ hubs[k].fan_in = Cardinality(modules[hubs[k].path].imported_by)
                  /\ k < Len(hubs) => hubs[k].fan_in >= hubs[k + 1].fan_in
                  /\ \A j \in 1..Len(hubs) : hubs[j].path = hubs[k].path => j = k

\* the second module imports 12 modules and is listed before the first, which
\* imports 11; the first module has 10 dependents and is no hub, the second
\* has 11 and is one
C26_Witness ==
    /\ g_pc = "reported"
    /\ Len(dependency_data.highly_coupled_modules) = 2
    /\ dependency_data.highly_coupled_modules[1].path = FanModule(2)
    /\ dependency_data.highly_coupled_modules[1].fan_out = 12
    /\ dependency_data.highly_coupled_modules[2].fan_out = 11
    /\ Cardinality(modules[FanModule(1)].imported_by) = 10
    /\ Len(dependency_data.hub_modules) = 1
    /\ dependency_data.hub_modules[1].path = FanModule(2)
    /\ dependency_data.hub_modules[1].fan_in = 11


(***************************************************************************)
(* The file scans of the dependency, complexity and debt analyses on the   *)
(* same repository at several locations (checked under SpecRelocation).    *)
(***************************************************************************)
\* complexity_analysis.should_analyze_file(filepath, repo_root, gitignore),
\* filepath = repo_root / rel: the parts of the absolute path are tested
ShouldAnalyzeComplexity(rel, root, gitignore) ==
    /\ \A part \in Range(Parts(root) \o Parts(rel)) : part \notin SkipDirs
    /\ rel \notin gitignore

\* debt_indicators.should_analyze_file: the parts of the relative path are tested
ShouldAnalyzeDebt(rel, root, gitignore) ==
    /\ \A part \in Range(Parts(rel)) : part \notin SkipDirs
    /\ rel \notin gitignore

\* the extensions analyze_complexity and analyze_debt walk (no .py file is on
\* the modelled disk)
ComplexityExtensions == { ExtTs }
DebtExtensions == { ExtTs, ExtJs, ExtTsx, ExtJsx }

\* the three walks "for filepath in repo_root.rglob(...): if should_analyze_file(...)"
ScanFiles(files, root, gitignore) ==
    [ dependency |-> SourceFilesOf(files, root, gitignore),
      complexity |-> { f \in files :
                         /\ \E ext \in ComplexityExtensions : EndsWith(f, ext)
                         /\ ShouldAnalyzeComplexity(f, root, gitignore) },
      debt |-> { f \in files :
                   /\ \E ext \in DebtExtensions : EndsWith(f, ext)
                   /\ ShouldAnalyzeDebt(f, root, gitignore) } ]

\* where the repository may lie
RootUnderOut == << "/", "w", "/", "o", "u", "t", "/", "r", "e", "p", "o" >>
RootUnderDist == << "/", "d", "i", "s", "t", "/", "r", "e", "p", "o" >>
ScanRoots == { RepoRoot, RootUnderOut, RootUnderDist }

\* the files that may be in it
FileDistA == << "d", "i", "s", "t", "/", "a", ".", "j", "s" >>
FileOutB == << "s", "r", "c", "/", "o", "u", "t", "/", "b", ".", "t", "s" >>
ScanPaths == { FileA, FileB, FileTestH, FileDistA, FileOutB }

InitRelocation ==
    /\ GraphIdle /\ LogIdle /\ ExclusionIdle /\ HookIdle /\ CouplingIdle /\ PriorityIdle
    /\ SnapshotIdle
    /\ f_pc = "disk"
    /\ f_root \in ScanRoots
    /\ f_files \in SUBSET ScanPaths
    /\ f_import = None
    /\ f_result = NotRun

\* the scans of analyze_dependencies, analyze_complexity and analyze_debt
Scan ==
    /\ f_pc = "disk"
    /\ f_pc' = "done"
    /\ f_result' = ScanFiles(f_files, f_root, GitIgnored)
    /\ UNCHANGED << f_root, f_files, f_import >>
    /\ UNCHANGED otherThanFiles

NextRelocation == Scan

SpecRelocation == InitRelocation /\ [][NextRelocation]_vars

\* C29: whether a file is analysed depends only on its path relative to the
\* repository root (and the ignore rules), never on the directory names in the
\* root's own absolute path: the dependency, complexity and debt scans of a
\* repository find the files they find when it lies at /w/repo, whatever
\* directory it lies under.
C29_LocationIndependent ==
    f_pc = "done" => f_result = ScanFiles(f_files, RepoRoot, GitIgnored)


(***************************************************************************)
(* .github/hooks/scripts/stop_hook.py in a session of its host: the agent  *)
(* works, tries to stop, the host runs the hook and either ends the        *)
(* session or, on a block decision, lets the agent continue.               *)
(***************************************************************************)
\* run_command: the exit code of a command that ends "ok" (exit code 0),
\* "failed" (a non-zero exit code), in "TimeoutExpired" after 10 s or in
\* "FileNotFoundError" without a git executable; 1 when the exception is caught
RunCommandCode(outcome) == IF outcome = "ok" THEN 0 ELSE 1

\* the git commands main may issue
StatusForUncommitted == "has_uncommitted_changes: git status --porcelain"
DiffHead == "check_ts_files_changed: git diff --name-only HEAD"
DiffCachedForTs == "check_ts_files_changed: git diff --cached --name-only"
StatusForUntracked == "has_untracked_ts_files: git status --porcelain"
DiffCachedForStaged == "has_staged_changes: git diff --cached --name-only"
HookCalls ==
    { StatusForUncommitted, DiffHead, DiffCachedForTs, StatusForUntracked,
      DiffCachedForStaged }

\* what git would print: the entries of "status --porcelain" as [untracked, ts],
\* the names of "diff --name-only HEAD" and of "diff --cached --name-only" as
\* whether they end in .ts / .tsx
HookRepoStates ==
    [ status : SUBSET { [ untracked |-> FALSE, ts |-> TRUE ],
                        [ untracked |-> TRUE, ts |-> TRUE ],
                        [ untracked |-> TRUE, ts |-> FALSE ] },
      head : { { }, { TRUE }, { FALSE } },
      cached : { { }, { TRUE }, { FALSE } } ]

\* has_uncommitted_changes
HasUncommittedChanges(repo, outcome) ==
    /\ RunCommandCode(outcome) = 0
    /\ \E line \in repo.status : ~line.untracked

\* has_untracked_ts_files
HasUntrackedTsFiles(repo, outcome) ==
    /\ RunCommandCode(outcome) = 0
    /\ \E line \in repo.status : line.untracked /\ line.ts

\* has_staged_changes
HasStagedChanges(repo, outcome) == RunCommandCode(outcome) = 0 /\ repo.cached # { }

\* check_ts_files_changed
CheckTsFilesChanged(repo, head_outcome, cached_outcome) ==
    IF RunCommandCode(head_outcome) = 0 /\ repo.head # { } THEN TRUE \in repo.head
    ELSE IF RunCommandCode(cached_outcome) = 0 /\ repo.cached # { }
    THEN TRUE \in repo.cached
    ELSE FALSE

\* the two responses main prints
EmptyResponse == << >>
BlockResponse(reason) ==
    [ hookSpecificOutput |->
        [ hookEventName |-> "Stop", decision |-> "block", reason |-> reason ] ]

\* input_data.get(key, default)
DictGet(dict, key, default) == IF key \in DOMAIN dict THEN dict[key] ELSE default

\* main without the stop_hook_active test
StopHookMainAlwaysChecks(input_data, repo, outcomes) ==
    LET ts_work_present ==
            \/ /\ HasUncommittedChanges(repo, outcomes[StatusForUncommitted])
               /\ CheckTsFilesChanged(repo, outcomes[DiffHead], outcomes[DiffCachedForTs])
            \/ HasUntrackedTsFiles(repo, outcomes[StatusForUntracked])
    IN  IF ts_work_present
        THEN [ response |-> BlockResponse("uncommitted TypeScript changes"), code |-> 0 ]
        ELSE IF HasStagedChanges(repo, outcomes[DiffCachedForStaged])
        THEN [ response |-> BlockResponse("staged changes"), code |-> 0 ]
        ELSE [ response |-> EmptyResponse, code |-> 0 ]

\* main(): what it prints and what it returns
StopHookMain(input_data, repo, outcomes) ==
    LET stop_hook_active == DictGet(input_data, "stop_hook_active", FALSE)
        ts_work_present ==
            \/ /\ HasUncommittedChanges(repo, outcomes[StatusForUncommitted])
               /\ CheckTsFilesChanged(repo, outcomes[DiffHead], outcomes[DiffCachedForTs])
            \/ HasUntrackedTsFiles(repo, outcomes[StatusForUntracked])
    IN  IF stop_hook_active
        THEN [ response |-> EmptyResponse, code |-> 0 ]
        ELSE IF ts_work_present
        THEN [ response |-> BlockResponse("uncommitted TypeScript changes"), code |-> 0 ]
        ELSE IF HasStagedChanges(repo, outcomes[DiffCachedForStaged])
        THEN [ response |-> BlockResponse("staged changes"), code |-> 0 ]
        ELSE [ response |-> EmptyResponse, code |-> 0 ]

\* how the git commands of one run end: git is missing, the directory is no
\* repository, or each command answers or times out
HookRuns ==
    { [ call \in HookCalls |-> "FileNotFoundError" ], [ call \in HookCalls |-> "failed" ] }
        \cup [ HookCalls -> { "ok", "TimeoutExpired" } ]

\* the response carries a block decision
Blocks(response) == "hookSpecificOutput" \in DOMAIN response

\* the agent edits, stages or commits files
AgentWork ==
    /\ h_pc = "working"
    /\ h_repo' \in HookRepoStates
    /\ h_repo' # h_repo
    /\ UNCHANGED << h_pc, h_continuing, h_input, h_outcomes, h_result >>
    /\ UNCHANGED otherThanHook

\* the agent tries to stop: the host starts the hook and writes its input,
\* stop_hook_active telling whether the session continues because of a block
StopAttempt ==
    /\ h_pc = "working"
    /\ h_input' = [ cwd |-> RepoRoot, stop_hook_active |-> h_continuing ]
    /\ h_pc' = "main"
    /\ UNCHANGED << h_repo, h_continuing, h_outcomes, h_result >>
    /\ UNCHANGED otherThanHook

\* the hook runs: main, with every git command ending in some way
HookMain ==
    /\ h_pc = "main"
    /\ \E outcomes \in HookRuns :
          /\ h_outcomes' = outcomes
          /\ h_result' = StopHookMain(h_input, h_repo, outcomes)
    /\ h_pc' = "responded"
    /\ UNCHANGED << h_repo, h_continuing, h_input >>
    /\ UNCHANGED otherThanHook

\* the host reads the response: a block decision makes the agent continue
HostDecide ==
    /\ h_pc = "responded"
    /\ IF h_result.code = 0 /\ Blocks(h_result.response)
       THEN h_pc' = "working" /\ h_continuing' = TRUE
       ELSE h_pc' = "stopped" /\ h_continuing' = FALSE
    /\ UNCHANGED << h_repo, h_input, h_outcomes, h_result >>
    /\ UNCHANGED otherThanHook

InitHook ==
    /\ GraphIdle /\ LogIdle /\ ExclusionIdle /\ FilesIdle /\ CouplingIdle /\ PriorityIdle
    /\ SnapshotIdle
    /\ h_pc = "working"
    /\ h_repo \in HookRepoStates
    /\ h_continuing = FALSE
    /\ h_input = << >>
    /\ h_outcomes = << >>
    /\ h_result = NoResult

NextHook == AgentWork \/ StopAttempt \/ HookMain \/ HostDecide

SpecHook == InitHook /\ [][NextHook]_vars

\* the hook terminates (every git command has a timeout), the host reads its
\* response, and an agent that may stop eventually tries to
SpecHookLive ==
    /\ SpecHook
    /\ WF_vars(StopAttempt) /\ WF_vars(HookMain) /\ WF_vars(HostDecide)

\* every git command of the run that just ended failed
GitUnavailable == \A call \in HookCalls : h_outcomes[call] # "ok"

=============================================================================
